---- MODULE Spec2Model ----
(***************************************************************************)
(* Model of the response cache of openai-mcp-server:                       *)
(*   InMemoryCache  (src/src/cache/in-memory-cache.ts)                     *)
(*   CacheService   (src/src/cache/cache-service.ts)                       *)
(* The Map of the store is a sequence of entries in Map iteration order    *)
(* (insertion order; overwriting a key keeps its position).                *)
(***************************************************************************)
EXTENDS Integers, Sequences, FiniteSets, TLC

VARIABLES
    cache,      \* InMemoryCache.cache: the Map, as the sequence of its entries in iteration order
    stats,      \* InMemoryCache.stats
    config,     \* the CacheConfig object shared by CacheService and InMemoryCache
    now,        \* the value Date.now() returns
    timer,      \* CacheService.cleanupInterval is set
    inflight,   \* the calls suspended at an await, and the intervals setInterval has scheduled
    batch,      \* history: the store when the calls now overlapping began, and those calls
    last,       \* history: the call that completed last, with the store it started from
    hist,       \* history: per key, when it was last set and last used, in call order
    budget      \* the number of calls the callers make in all

vars == <<cache, stats, config, now, timer, inflight, batch, last, hist, budget>>

(***************************************************************************)
(* Bounds of the model.                                                    *)
(***************************************************************************)
MaxClock == 1
MaxMaxSize == 2
MaxCalls == 4
MaxShortCalls == 3
MaxSets == 3
MaxGets == 2

(***************************************************************************)
(* Inputs.  Keys are arbitrary strings, the empty string included.         *)
(***************************************************************************)
Keys == {"", "a", "b"}
Values == {"v1", "v2"}
Strategies == {"LRU", "LFU", "FIFO"}
\* the ttl argument left out (undefined) by the caller
NoTtl == -1000
TtlArgs == {NoTtl, 0}
\* config.ttl
DefaultTtl == 1
\* the value undefined returned by get
Undefined == "undefined"
\* the initial value null of oldestKey / leastUsedKey
NullKey == "<null>"
\* the initial value Infinity of oldestAccessTime / lowestAccessCount / oldestCreatedTime
Infinity == 1000000

(***************************************************************************)
(* Map<string, CacheEntry> helpers.                                        *)
(***************************************************************************)
MapKeys(c) == {c[i].key : i \in 1..Len(c)}

MapHas(c, key) == key \in MapKeys(c)

MapIndex(c, key) == CHOOSE i \in 1..Len(c) : c[i].key = key

MapGet(c, key) == c[MapIndex(c, key)]

MapDelete(c, key) == SelectSeq(c, LAMBDA e : e.key # key)

MapSet(c, key, entry) ==
    IF MapHas(c, key)
    THEN [i \in 1..Len(c) |-> IF c[i].key = key THEN entry ELSE c[i]]
    ELSE Append(c, entry)

\* a JavaScript string used as a condition: null and "" are falsy
Truthy(key) == key # NullKey /\ key # ""

(***************************************************************************)
(* InMemoryCache: every method is an operator from the store's state       *)
(* s = [cache, stats] to the state after the call, with the returned value *)
(* in ret.  t is the value Date.now() reads during the call.               *)
(***************************************************************************)
\* delete that counts every call
delete_CountsEveryCall(s, key) ==
    LET c2 == MapDelete(s.cache, key)
    IN  [cache |-> c2,
         stats |-> [s.stats EXCEPT !.deletes = @ + 1, !.size = Len(c2)],
         ret |-> MapHas(s.cache, key)]

\* delete that leaves the size statistic as it was
delete_KeepsSize(s, key) ==
    LET deleted == MapHas(s.cache, key)
    IN  IF deleted
        THEN [cache |-> MapDelete(s.cache, key),
              stats |-> [s.stats EXCEPT !.deletes = @ + 1],
              ret |-> TRUE]
        ELSE [cache |-> s.cache, stats |-> s.stats, ret |-> FALSE]

delete(s, key) ==
    LET deleted == MapHas(s.cache, key)
        c2 == MapDelete(s.cache, key)
    IN  IF deleted
        THEN [cache |-> c2,
              stats |-> [s.stats EXCEPT !.deletes = @ + 1, !.size = Len(c2)],
              ret |-> TRUE]
        ELSE [cache |-> s.cache, stats |-> s.stats, ret |-> FALSE]

RECURSIVE ScanLRU(_, _, _, _)
ScanLRU(c, i, oldestKey, oldestAccessTime) ==
    IF i > Len(c) THEN oldestKey
    ELSE IF c[i].lastAccessedAt < oldestAccessTime
         THEN ScanLRU(c, i + 1, c[i].key, c[i].lastAccessedAt)
         ELSE ScanLRU(c, i + 1, oldestKey, oldestAccessTime)

RECURSIVE ScanLFU(_, _, _, _)
ScanLFU(c, i, leastUsedKey, lowestAccessCount) ==
    IF i > Len(c) THEN leastUsedKey
    ELSE IF c[i].accessCount < lowestAccessCount
         THEN ScanLFU(c, i + 1, c[i].key, c[i].accessCount)
         ELSE ScanLFU(c, i + 1, leastUsedKey, lowestAccessCount)

RECURSIVE ScanFIFO(_, _, _, _)
ScanFIFO(c, i, oldestKey, oldestCreatedTime) ==
    IF i > Len(c) THEN oldestKey
    ELSE IF c[i].createdAt < oldestCreatedTime
         THEN ScanFIFO(c, i + 1, c[i].key, c[i].createdAt)
         ELSE ScanFIFO(c, i + 1, oldestKey, oldestCreatedTime)

\* the tail shared by evictLRU, evictLFU and evictFIFO: if (key) { delete; evictions++; size }
\* EvictKey that does not count the eviction
EvictKey_Uncounted(s, key) ==
    IF Truthy(key)
    THEN LET c2 == MapDelete(s.cache, key)
         IN  [cache |-> c2, stats |-> [s.stats EXCEPT !.size = Len(c2)]]
    ELSE [cache |-> s.cache, stats |-> s.stats]

\* EvictKey that removes the entry with this.delete(key)
EvictKey_CountsDelete(s, key) ==
    IF Truthy(key)
    THEN LET r == delete(s, key)
         IN  [cache |-> r.cache,
              stats |-> [r.stats EXCEPT !.evictions = @ + 1]]
    ELSE [cache |-> s.cache, stats |-> s.stats]

EvictKey(s, key) ==
    IF Truthy(key)
    THEN LET c2 == MapDelete(s.cache, key)
         IN  [cache |-> c2,
              stats |-> [s.stats EXCEPT !.evictions = @ + 1, !.size = Len(c2)]]
    ELSE [cache |-> s.cache, stats |-> s.stats]

evictLRU(s) == EvictKey(s, ScanLRU(s.cache, 1, NullKey, Infinity))

evictLFU(s) == EvictKey(s, ScanLFU(s.cache, 1, NullKey, Infinity))

evictFIFO(s) == EvictKey(s, ScanFIFO(s.cache, 1, NullKey, Infinity))

evict(s, strategy) ==
    CASE strategy = "LRU" -> evictLRU(s)
      [] strategy = "LFU" -> evictLFU(s)
      [] strategy = "FIFO" -> evictFIFO(s)
      [] OTHER -> evictLRU(s)

\* NeedsEvict without the test !cache.has(key)
NeedsEvict_IgnoresHeld(s, cfg, key) == Len(s.cache) >= cfg.maxSize

NeedsEvict(s, cfg, key) == Len(s.cache) >= cfg.maxSize /\ ~MapHas(s.cache, key)

NewEntry(cfg, key, value, ttl, t) ==
    LET effectiveTtl == IF ttl = NoTtl THEN cfg.ttl ELSE ttl
    IN  [key |-> key, value |-> value, createdAt |-> t, expiresAt |-> t + effectiveTtl,
         accessCount |-> 0, lastAccessedAt |-> t]

\* Insert that counts a set only when it adds a key
Insert_CountsNewKeys(s, cfg, key, value, ttl, t) ==
    LET c2 == MapSet(s.cache, key, NewEntry(cfg, key, value, ttl, t))
    IN  [cache |-> c2,
         stats |-> [s.stats EXCEPT !.sets = IF MapHas(s.cache, key) THEN @ ELSE @ + 1,
                                   !.size = Len(c2)]]

\* the part of set after the eviction: build the entry, insert it, count it
Insert(s, cfg, key, value, ttl, t) ==
    LET c2 == MapSet(s.cache, key, NewEntry(cfg, key, value, ttl, t))
    IN  [cache |-> c2,
         stats |-> [s.stats EXCEPT !.sets = @ + 1, !.size = Len(c2)]]

\* set that removes the expired entries before it tests the capacity
set_SweepsFirst(s, cfg, key, value, ttl, t) ==
    LET s0 == [cache |-> SelectSeq(s.cache, LAMBDA e : t <= e.expiresAt), stats |-> s.stats]
        s1 == IF NeedsEvict(s0, cfg, key) THEN evict(s0, cfg.strategy) ELSE s0
    IN  Insert(s1, cfg, key, value, ttl, t)

set(s, cfg, key, value, ttl, t) ==
    LET s1 == IF NeedsEvict(s, cfg, key) THEN evict(s, cfg.strategy) ELSE s
    IN  Insert(s1, cfg, key, value, ttl, t)

\* Expired with the boundary on the other side
Expired_AtBoundary(entry, t) == t >= entry.expiresAt

Expired(entry, t) == t > entry.expiresAt

\* get without the check for expiry
get_IgnoresExpiry(s, key, t, t2) ==
    IF ~MapHas(s.cache, key)
    THEN [cache |-> s.cache, stats |-> [s.stats EXCEPT !.misses = @ + 1], ret |-> Undefined]
    ELSE LET entry == MapGet(s.cache, key)
         IN  [cache |-> MapSet(s.cache, key,
                               [entry EXCEPT !.accessCount = @ + 1, !.lastAccessedAt = t2]),
              stats |-> [s.stats EXCEPT !.hits = @ + 1],
              ret |-> entry.value]

\* t2 is the value of the second Date.now() of get, read for lastAccessedAt
get(s, key, t, t2) ==
    IF ~MapHas(s.cache, key)
    THEN [cache |-> s.cache, stats |-> [s.stats EXCEPT !.misses = @ + 1], ret |-> Undefined]
    ELSE LET entry == MapGet(s.cache, key)
         IN  IF Expired(entry, t)
             THEN LET d == delete(s, key)
                  IN  [cache |-> d.cache, stats |-> [d.stats EXCEPT !.misses = @ + 1],
                       ret |-> Undefined]
             ELSE [cache |-> MapSet(s.cache, key,
                                    [entry EXCEPT !.accessCount = @ + 1, !.lastAccessedAt = t2]),
                   stats |-> [s.stats EXCEPT !.hits = @ + 1],
                   ret |-> entry.value]

\* has that counts as an access of a live entry
has_BumpsAccess(s, key, t) ==
    IF ~MapHas(s.cache, key)
    THEN [cache |-> s.cache, stats |-> s.stats, ret |-> FALSE]
    ELSE LET entry == MapGet(s.cache, key)
         IN  IF Expired(entry, t)
             THEN LET d == delete(s, key)
                  IN  [cache |-> d.cache, stats |-> d.stats, ret |-> FALSE]
             ELSE [cache |-> MapSet(s.cache, key,
                                    [entry EXCEPT !.accessCount = @ + 1, !.lastAccessedAt = t]),
                   stats |-> s.stats, ret |-> TRUE]

\* has that sweeps every expired entry when it finds the entry of the key expired
has_SweepsAll(s, key, t) ==
    IF ~MapHas(s.cache, key)
    THEN [cache |-> s.cache, stats |-> s.stats, ret |-> FALSE]
    ELSE IF Expired(MapGet(s.cache, key), t)
         THEN LET c2 == SelectSeq(s.cache, LAMBDA e : ~Expired(e, t))
              IN  [cache |-> c2,
                   stats |-> [s.stats EXCEPT !.deletes = @ + 1, !.size = Len(c2)],
                   ret |-> FALSE]
         ELSE [cache |-> s.cache, stats |-> s.stats, ret |-> TRUE]

has(s, key, t) ==
    IF ~MapHas(s.cache, key)
    THEN [cache |-> s.cache, stats |-> s.stats, ret |-> FALSE]
    ELSE IF Expired(MapGet(s.cache, key), t)
         THEN LET d == delete(s, key)
              IN  [cache |-> d.cache, stats |-> d.stats, ret |-> FALSE]
         ELSE [cache |-> s.cache, stats |-> s.stats, ret |-> TRUE]

\* clear that resets the counters too
clear_ResetsCounters(s) ==
    [cache |-> <<>>,
     stats |-> [s.stats EXCEPT !.size = 0, !.hits = 0, !.misses = 0, !.sets = 0, !.deletes = 0,
                               !.evictions = 0]]

clear(s) == [cache |-> <<>>, stats |-> [s.stats EXCEPT !.size = 0]]

size(s) == Len(s.cache)

\* CleanupFrom with an iterator that steps over the entry after a deleted one
RECURSIVE CleanupFrom_SkipsNext(_, _, _, _)
CleanupFrom_SkipsNext(s, i, t, cleaned) ==
    IF i > Len(s.cache) THEN [cache |-> s.cache, stats |-> s.stats, ret |-> cleaned]
    ELSE IF Expired(s.cache[i], t)
         THEN CleanupFrom_SkipsNext(delete(s, s.cache[i].key), i + 1, t, cleaned + 1)
         ELSE CleanupFrom_SkipsNext(s, i + 1, t, cleaned)

\* the loop of cleanupExpired from position i of the Map iterator on
RECURSIVE CleanupFrom(_, _, _, _)
CleanupFrom(s, i, t, cleaned) ==
    IF i > Len(s.cache) THEN [cache |-> s.cache, stats |-> s.stats, ret |-> cleaned]
    ELSE IF Expired(s.cache[i], t)
         THEN CleanupFrom(delete(s, s.cache[i].key), i, t, cleaned + 1)
         ELSE CleanupFrom(s, i + 1, t, cleaned)

\* the loop of a cleanupExpired that removes an entry from the clock value expiresAt on
RECURSIVE CleanupFrom_AtBoundary(_, _, _, _)
CleanupFrom_AtBoundary(s, i, t, cleaned) ==
    IF i > Len(s.cache) THEN [cache |-> s.cache, stats |-> s.stats, ret |-> cleaned]
    ELSE IF t >= s.cache[i].expiresAt
         THEN CleanupFrom_AtBoundary(delete(s, s.cache[i].key), i, t, cleaned + 1)
         ELSE CleanupFrom_AtBoundary(s, i + 1, t, cleaned)

cleanupExpired_AtBoundary(s, t) == CleanupFrom_AtBoundary(s, 1, t, 0)

\* cleanupExpired with the iterator that steps over entries
cleanupExpired_SkipsNext(s, t) == CleanupFrom_SkipsNext(s, 1, t, 0)

cleanupExpired(s, t) == CleanupFrom(s, 1, t, 0)

(***************************************************************************)
(* The state machine of a store used directly, one call at a time          *)
(* (each call is awaited before the next one is made).                     *)
(***************************************************************************)
Store == [cache |-> cache, stats |-> stats]

Configs == [enabled : BOOLEAN, ttl : {DefaultTtl}, maxSize : 1..MaxMaxSize,
            strategy : Strategies]

InitStats(cfg) == [hits |-> 0, misses |-> 0, sets |-> 0, deletes |-> 0, evictions |-> 0,
                   size |-> 0, maxSize |-> cfg.maxSize]

NoBatch == [start |-> [cache |-> <<>>, stats |-> InitStats(config)], calls |-> <<>>]

NoCall == [op |-> "none", key |-> NullKey, value |-> Undefined, ttl |-> NoTtl, ret |-> Undefined,
           ok |-> FALSE, count |-> 0, at |-> 0,
           pre |-> [cache |-> <<>>, stats |-> InitStats(config)], seq |-> 0, disposed |-> FALSE]

\* the record of a completed call: ret is the value get returned, ok the boolean has or
\* delete returned, count the number cleanupExpired returned, at the clock value it read;
\* value and ttl are the arguments of a set
Call(op, key, ret, ok, count, t) ==
    [op |-> op, key |-> key, value |-> Undefined, ttl |-> NoTtl, ret |-> ret, ok |-> ok,
     count |-> count, at |-> t, pre |-> Store, seq |-> last.seq + 1]

\* born: the number of the call that last set the key; touch: the number of the call that last
\* set it or read it with get; reads: the successful get calls since it was last set
NoHist == [born |-> [k \in Keys |-> 0], touch |-> [k \in Keys |-> 0], reads |-> [k \in Keys |-> 0]]

HistSet(key) == [born |-> [hist.born EXCEPT ![key] = last.seq + 1],
                 touch |-> [hist.touch EXCEPT ![key] = last.seq + 1],
                 reads |-> [hist.reads EXCEPT ![key] = 0]]

HistGet(key, hit) ==
    IF hit THEN [hist EXCEPT !.touch[key] = last.seq + 1, !.reads[key] = @ + 1] ELSE hist

\* a new InMemoryCache with one of the strategies and one of the sizes, and a caller that
\* makes n calls
InitStore(n, strategies, sizes) ==
    /\ config \in Configs
    /\ config.strategy \in strategies
    /\ config.maxSize \in sizes
    /\ config.enabled
    /\ cache = <<>>
    /\ stats = InitStats(config)
    /\ now = 0
    /\ timer = FALSE
    /\ inflight = {}
    /\ batch = NoBatch
    /\ last = NoCall
    /\ hist = NoHist
    /\ budget = n

Init == InitStore(MaxCalls, Strategies, 1..MaxMaxSize)

\* get and has never read the strategy (in-memory-cache.ts:25-46, 70-84)
InitShort == InitStore(MaxShortCalls, {"LRU"}, 1..MaxMaxSize)

Tick ==
    /\ now < MaxClock
    /\ now' = now + 1
    /\ UNCHANGED <<cache, stats, config, timer, inflight, batch, last, hist, budget>>

Get(key) ==
    /\ last.seq < budget
    /\ stats.hits + stats.misses < MaxGets
    /\ \E t2 \in {now, now + 1} :
         /\ t2 <= MaxClock
         /\ LET r == get(Store, key, now, t2)
            IN  /\ t2 # now => r.ret # Undefined
                /\ cache' = r.cache
                /\ stats' = r.stats
                /\ last' = Call("get", key, r.ret, r.ret # Undefined, 0, now)
                /\ hist' = HistGet(key, r.ret # Undefined)
                /\ now' = t2
    /\ UNCHANGED <<config, timer, inflight, batch, budget>>

Set(key, value, ttl) ==
    /\ last.seq < budget
    /\ stats.sets < MaxSets
    /\ LET r == set(Store, config, key, value, ttl, now)
       IN  /\ cache' = r.cache
           /\ stats' = r.stats
           /\ last' = [Call("set", key, Undefined, TRUE, 0, now) EXCEPT !.value = value, !.ttl = ttl]
    /\ hist' = HistSet(key)
    /\ UNCHANGED <<config, now, timer, inflight, batch, budget>>

Has(key) ==
    /\ last.seq < budget
    /\ LET r == has(Store, key, now)
       IN  /\ cache' = r.cache
           /\ stats' = r.stats
           /\ last' = Call("has", key, Undefined, r.ret, 0, now)
    /\ UNCHANGED <<config, now, timer, inflight, batch, hist, budget>>

Delete(key) ==
    /\ last.seq < budget
    /\ LET r == delete(Store, key)
       IN  /\ cache' = r.cache
           /\ stats' = r.stats
           /\ last' = Call("delete", key, Undefined, r.ret, 0, now)
    /\ UNCHANGED <<config, now, timer, inflight, batch, hist, budget>>

Clear ==
    /\ last.seq < budget
    /\ LET r == clear(Store)
       IN  /\ cache' = r.cache
           /\ stats' = r.stats
           /\ last' = Call("clear", NullKey, Undefined, TRUE, 0, now)
    /\ UNCHANGED <<config, now, timer, inflight, batch, hist, budget>>

CleanupExpired ==
    /\ last.seq < budget
    /\ LET r == cleanupExpired(Store, now)
       IN  /\ cache' = r.cache
           /\ stats' = r.stats
           /\ last' = Call("cleanupExpired", NullKey, Undefined, TRUE, r.ret, now)
    /\ UNCHANGED <<config, now, timer, inflight, batch, hist, budget>>

Next ==
    \/ Tick
    \/ \E key \in Keys : Get(key)
    \/ \E key \in Keys, value \in Values, ttl \in TtlArgs : Set(key, value, ttl)
    \/ \E key \in Keys : Has(key)
    \/ \E key \in Keys : Delete(key)
    \/ Clear
    \/ CleanupExpired

Spec == Init /\ [][Next]_vars

\* the same store with a caller that makes fewer calls
SpecShort == InitShort /\ [][Next]_vars

\* the same store with a caller that also passes a negative ttl: set takes any number
\* (in-memory-cache.ts:48-49)
NegativeTtl == -1

NextTtl ==
    \/ Tick
    \/ \E key \in Keys, value \in Values, ttl \in TtlArgs \cup {NegativeTtl} : Set(key, value, ttl)
    \/ \E key \in Keys : Get(key)
    \/ \E key \in Keys : Has(key)

SpecTtl == InitShort /\ [][NextTtl]_vars

(***************************************************************************)
(* Two stores that receive the same set, get, has and delete calls at the  *)
(* same clock values; cleanupExpired is called on the first one only, at   *)
(* any point between the calls.  The second store is batch.start, and      *)
(* batch.calls lists the keys of the set calls that found it at capacity.  *)
(* Both Date.now() calls of a get read the same value here.                *)
(***************************************************************************)
MaxSweepCalls == 4

Unswept == batch.start

\* the value the callers of the two stores set
SweepValues == {"v1"}

\* the record of a call made on both stores: ret what the swept store returned, twin what the
\* other one returned
Both(op, key, ret, twin) ==
    [op |-> op, key |-> key, ret |-> ret, twin |-> twin, seq |-> last.seq + 1]

BothSet(key, value, ttl) ==
    /\ last.seq < budget
    /\ LET r == set(Store, config, key, value, ttl, now)
           u == set(Unswept, config, key, value, ttl, now)
       IN  /\ cache' = r.cache
           /\ stats' = r.stats
           /\ batch' = [start |-> u,
                        calls |-> IF NeedsEvict(Unswept, config, key)
                                  THEN Append(batch.calls, key) ELSE batch.calls]
           /\ last' = Both("set", key, Undefined, Undefined)
    /\ UNCHANGED <<config, now, timer, inflight, hist, budget>>

BothGet(key) ==
    /\ last.seq < budget
    /\ LET r == get(Store, key, now, now)
           u == get(Unswept, key, now, now)
       IN  /\ cache' = r.cache
           /\ stats' = r.stats
           /\ batch' = [batch EXCEPT !.start = [cache |-> u.cache, stats |-> u.stats]]
           /\ last' = Both("get", key, r.ret, u.ret)
    /\ UNCHANGED <<config, now, timer, inflight, hist, budget>>

BothHas(key) ==
    /\ last.seq < budget
    /\ LET r == has(Store, key, now)
           u == has(Unswept, key, now)
       IN  /\ cache' = r.cache
           /\ stats' = r.stats
           /\ batch' = [batch EXCEPT !.start = [cache |-> u.cache, stats |-> u.stats]]
           /\ last' = Both("has", key, r.ret, u.ret)
    /\ UNCHANGED <<config, now, timer, inflight, hist, budget>>

BothDelete(key) ==
    /\ last.seq < budget
    /\ LET r == delete(Store, key)
           u == delete(Unswept, key)
       IN  /\ cache' = r.cache
           /\ stats' = r.stats
           /\ batch' = [batch EXCEPT !.start = [cache |-> u.cache, stats |-> u.stats]]
           /\ last' = Both("delete", key, r.ret, u.ret)
    /\ UNCHANGED <<config, now, timer, inflight, hist, budget>>

\* cleanupExpired on the first store
Sweep ==
    /\ LET r == cleanupExpired(Store, now)
       IN  /\ cache' = r.cache
           /\ stats' = r.stats
    /\ UNCHANGED <<config, now, timer, inflight, batch, last, hist, budget>>

NextSweep ==
    \/ Tick
    \/ \E key \in Keys, value \in SweepValues, ttl \in TtlArgs : BothSet(key, value, ttl)
    \/ \E key \in Keys : BothGet(key)
    \/ \E key \in Keys : BothHas(key)
    \/ \E key \in Keys : BothDelete(key)
    \/ Sweep

InitSweep == InitStore(MaxSweepCalls, {"LRU"}, {MaxMaxSize})

SpecSweep == InitSweep /\ [][NextSweep]_vars

\* a store of one entry under every strategy: every set of a new key after the first evicts
InitTight == InitStore(MaxShortCalls, Strategies, {1})

SpecTight == InitTight /\ [][Next]_vars

\* a store of the largest size under the strategies that read the access bookkeeping
InitAccess == InitStore(MaxShortCalls, {"LRU", "LFU"}, {MaxMaxSize})

SpecAccess == InitAccess /\ [][Next]_vars

(***************************************************************************)
(* The state machine of a store whose calls are not awaited by the caller: *)
(* an async method runs until its first await that suspends it, and the    *)
(* rest of it runs later, after any other code that was ready to run.      *)
(*   set:            await this.evict()        (in-memory-cache.ts:54)     *)
(*   evict:          await this.evictLRU() ... (in-memory-cache.ts:116)    *)
(*   get, has:       await this.delete(key)    (in-memory-cache.ts:35,79)  *)
(*   cleanupExpired: await this.delete(key)    (in-memory-cache.ts:201)    *)
(* The awaited methods themselves run to their end without suspending.     *)
(* Both Date.now() calls of a get read the same value here.                *)
(***************************************************************************)
MaxAsyncCalls == 3

Frame(id, op, key, value, ttl, t, pc, idx, cleaned) ==
    [id |-> id, op |-> op, key |-> key, value |-> value, ttl |-> ttl, t |-> t,
     pc |-> pc, idx |-> idx, cleaned |-> cleaned]

\* a call as the caller made it, what it returned once done, and its place (order) among the
\* calls of its batch in the order they completed
Issued(id, op, key, value, ttl, t) ==
    [id |-> id, op |-> op, key |-> key, value |-> value, ttl |-> ttl, t |-> t,
     done |-> FALSE, ret |-> Undefined, ok |-> FALSE, count |-> 0, order |-> 0]

Returned(d, ret, ok, count) == [d EXCEPT !.done = TRUE, !.ret = ret, !.ok = ok, !.count = count]

\* the calls that overlap: a call made while nothing is suspended starts a new batch
Issue(d) ==
    IF inflight = {}
    THEN [start |-> Store, calls |-> <<d>>]
    ELSE [batch EXCEPT !.calls = Append(@, d)]

Finish(b, id, ret, ok, count) ==
    [b EXCEPT !.calls = [i \in 1..Len(@) |->
        IF @[i].id = id
        THEN [Returned(@[i], ret, ok, count) EXCEPT
                 !.order = 1 + Cardinality({j \in 1..Len(b.calls) : b.calls[j].done})]
        ELSE @[i]]]

\* A Map iterator is the position idx of the entry it visits next.  Removing an entry the
\* iterator has passed moves the entries after it, and the iterator with them, one down.
Reindex(frames, c, c2) ==
    {[f EXCEPT !.idx = @ - Cardinality({i \in 1..(@ - 1) : i <= Len(c) /\ ~MapHas(c2, c[i].key)})]
        : f \in frames}

\* the position of the first expired entry at or after position i, 0 if there is none
RECURSIVE NextExpired(_, _, _)
NextExpired(c, i, t) ==
    IF i > Len(c) THEN 0
    ELSE IF Expired(c[i], t) THEN i
    ELSE NextExpired(c, i + 1, t)

Bump == last' = [last EXCEPT !.seq = @ + 1]

AsyncSet(key, value, ttl) ==
    /\ last.seq < budget
    /\ LET id == last.seq + 1
           d == Issued(id, "set", key, value, ttl, now)
       IN  IF NeedsEvict(Store, config, key)
           THEN LET r == evict(Store, config.strategy)
                IN  /\ cache' = r.cache
                    /\ stats' = r.stats
                    /\ inflight' = Reindex(inflight, cache, r.cache)
                                      \cup {Frame(id, "set", key, value, ttl, now, "evict", 0, 0)}
                    /\ batch' = Issue(d)
           ELSE LET r == Insert(Store, config, key, value, ttl, now)
                IN  /\ cache' = r.cache
                    /\ stats' = r.stats
                    /\ inflight' = inflight
                    /\ batch' = Finish(Issue(d), id, Undefined, TRUE, 0)
    /\ Bump
    /\ UNCHANGED <<config, now, timer, hist, budget>>

\* evict continues after its await and returns
ResumeEvict(id) ==
    \E f \in inflight :
    /\ f.id = id
    /\ f.pc = "evict"
    /\ inflight' = (inflight \ {f}) \cup {[f EXCEPT !.pc = "set"]}
    /\ UNCHANGED <<cache, stats, config, now, timer, batch, last, hist, budget>>

\* set continues after await this.evict()
ResumeSet(id) ==
    \E f \in inflight :
    /\ f.id = id
    /\ f.pc = "set"
    /\ LET r == Insert(Store, config, f.key, f.value, f.ttl, f.t)
       IN  /\ cache' = r.cache
           /\ stats' = r.stats
    /\ inflight' = inflight \ {f}
    /\ batch' = Finish(batch, f.id, Undefined, TRUE, 0)
    /\ UNCHANGED <<config, now, timer, last, hist, budget>>

AsyncGet(key) ==
    /\ last.seq < budget
    /\ LET id == last.seq + 1
           d == Issued(id, "get", key, Undefined, NoTtl, now)
       IN  IF MapHas(cache, key) /\ Expired(MapGet(cache, key), now)
           THEN LET r == delete(Store, key)
                IN  /\ cache' = r.cache
                    /\ stats' = r.stats
                    /\ inflight' = Reindex(inflight, cache, r.cache)
                                      \cup {Frame(id, "get", key, Undefined, NoTtl, now, "get", 0, 0)}
                    /\ batch' = Issue(d)
           ELSE LET r == get(Store, key, now, now)
                IN  /\ cache' = r.cache
                    /\ stats' = r.stats
                    /\ inflight' = inflight
                    /\ batch' = Finish(Issue(d), id, r.ret, r.ret # Undefined, 0)
    /\ Bump
    /\ UNCHANGED <<config, now, timer, hist, budget>>

\* get continues after await this.delete(key)
ResumeGet(id) ==
    \E f \in inflight :
    /\ f.id = id
    /\ f.pc = "get"
    /\ stats' = [stats EXCEPT !.misses = @ + 1]
    /\ inflight' = inflight \ {f}
    /\ batch' = Finish(batch, f.id, Undefined, FALSE, 0)
    /\ UNCHANGED <<cache, config, now, timer, last, hist, budget>>

AsyncHas(key) ==
    /\ last.seq < budget
    /\ LET id == last.seq + 1
           d == Issued(id, "has", key, Undefined, NoTtl, now)
       IN  IF MapHas(cache, key) /\ Expired(MapGet(cache, key), now)
           THEN LET r == delete(Store, key)
                IN  /\ cache' = r.cache
                    /\ stats' = r.stats
                    /\ inflight' = Reindex(inflight, cache, r.cache)
                                      \cup {Frame(id, "has", key, Undefined, NoTtl, now, "has", 0, 0)}
                    /\ batch' = Issue(d)
           ELSE LET r == has(Store, key, now)
                IN  /\ cache' = r.cache
                    /\ stats' = r.stats
                    /\ inflight' = inflight
                    /\ batch' = Finish(Issue(d), id, Undefined, r.ret, 0)
    /\ Bump
    /\ UNCHANGED <<config, now, timer, hist, budget>>

\* has continues after await this.delete(key)
ResumeHas(id) ==
    \E f \in inflight :
    /\ f.id = id
    /\ f.pc = "has"
    /\ inflight' = inflight \ {f}
    /\ batch' = Finish(batch, f.id, Undefined, FALSE, 0)
    /\ UNCHANGED <<cache, stats, config, now, timer, last, hist, budget>>

AsyncDelete(key) ==
    /\ last.seq < budget
    /\ LET id == last.seq + 1
           d == Issued(id, "delete", key, Undefined, NoTtl, now)
           r == delete(Store, key)
       IN  /\ cache' = r.cache
           /\ stats' = r.stats
           /\ inflight' = Reindex(inflight, cache, r.cache)
           /\ batch' = Finish(Issue(d), id, Undefined, r.ret, 0)
    /\ Bump
    /\ UNCHANGED <<config, now, timer, hist, budget>>

AsyncCleanupExpired ==
    /\ last.seq < budget
    /\ LET id == last.seq + 1
           d == Issued(id, "cleanupExpired", NullKey, Undefined, NoTtl, now)
           p == NextExpired(cache, 1, now)
       IN  IF p # 0
           THEN LET r == delete(Store, cache[p].key)
                IN  /\ cache' = r.cache
                    /\ stats' = r.stats
                    /\ inflight' = Reindex(inflight, cache, r.cache)
                          \cup {Frame(id, "cleanupExpired", NullKey, Undefined, NoTtl, now,
                                      "cleanup", p, 1)}
                    /\ batch' = Issue(d)
           ELSE /\ UNCHANGED <<cache, stats, inflight>>
                /\ batch' = Finish(Issue(d), id, Undefined, TRUE, 0)
    /\ Bump
    /\ UNCHANGED <<config, now, timer, hist, budget>>

\* the loop of cleanupExpired continues after await this.delete(key)
ResumeCleanup(id) ==
    \E f \in inflight :
    /\ f.id = id
    /\ f.pc = "cleanup"
    /\ LET p == NextExpired(cache, f.idx, f.t)
       IN  IF p # 0
           THEN LET r == delete(Store, cache[p].key)
                IN  /\ cache' = r.cache
                    /\ stats' = r.stats
                    /\ inflight' = Reindex(inflight \ {f}, cache, r.cache)
                                      \cup {[f EXCEPT !.idx = p, !.cleaned = @ + 1]}
                    /\ batch' = batch
           ELSE /\ UNCHANGED <<cache, stats>>
                /\ inflight' = inflight \ {f}
                /\ batch' = Finish(batch, f.id, Undefined, TRUE, f.cleaned)
    /\ UNCHANGED <<config, now, timer, last, hist, budget>>

NextAsync ==
    \/ Tick
    \/ \E key \in Keys, value \in Values, ttl \in TtlArgs : AsyncSet(key, value, ttl)
    \/ \E key \in Keys : AsyncGet(key)
    \/ \E key \in Keys : AsyncHas(key)
    \/ \E key \in Keys : AsyncDelete(key)
    \/ AsyncCleanupExpired
    \/ \E id \in 1..MaxAsyncCalls : ResumeEvict(id)
    \/ \E id \in 1..MaxAsyncCalls : ResumeSet(id)
    \/ \E id \in 1..MaxAsyncCalls : ResumeGet(id)
    \/ \E id \in 1..MaxAsyncCalls : ResumeHas(id)
    \/ \E id \in 1..MaxAsyncCalls : ResumeCleanup(id)

InitAsync == InitStore(MaxAsyncCalls, Strategies, 1..MaxMaxSize)

SpecAsync == InitAsync /\ [][NextAsync]_vars

(***************************************************************************)
(* The same machine under set calls alone, on a store of one entry, long   *)
(* enough for two overlapping sets to follow two overlapping sets.         *)
(***************************************************************************)
MaxRaceCalls == 5

RaceKeys == {"a", "b", "c"}

NextRace ==
    \/ \E key \in RaceKeys, value \in Values : AsyncSet(key, value, NoTtl)
    \/ \E id \in 1..MaxRaceCalls : ResumeEvict(id)
    \/ \E id \in 1..MaxRaceCalls : ResumeSet(id)

InitRace == InitStore(MaxRaceCalls, {"LRU"}, {1})

SpecRace == InitRace /\ [][NextRace]_vars

(***************************************************************************)
(* CacheKeyGenerator and OpenAICacheKeyGenerator.                          *)
(* A JavaScript value is a record: t its type, s the characters of a       *)
(* string or the decimals of a number, n the whole part of a number or the *)
(* value of a boolean (0 or 1), a the elements of an array or the properties of an object in        *)
(* property order, k the name under which the value is a property ("" when *)
(* it is not one).                                                         *)
(***************************************************************************)
JsValue(t, s, n, a) == [k |-> "", t |-> t, s |-> s, n |-> n, a |-> a]

Undef == JsValue("undefined", "", 0, <<>>)

Null == JsValue("null", "", 0, <<>>)

Bool(b) == JsValue("boolean", "", IF b THEN 1 ELSE 0, <<>>)

Num(n) == JsValue("number", "", n, <<>>)

\* the number n.decimals
Decimal(n, decimals) == JsValue("number", decimals, n, <<>>)

Str(s) == JsValue("string", s, 0, <<>>)

Arr(a) == JsValue("array", "", 0, a)

Obj(a) == JsValue("object", "", 0, a)

\* an object one of whose properties is the object itself
Cyclic == JsValue("cyclic", "", 0, <<>>)

Prop(name, v) == [v EXCEPT !.k = name]

HasProp(obj, name) == \E i \in 1..Len(obj.a) : obj.a[i].k = name

\* obj[name]: undefined when the object has no such property
GetProp(obj, name) ==
    IF HasProp(obj, name)
    THEN Prop("", obj.a[CHOOSE i \in 1..Len(obj.a) : obj.a[i].k = name])
    ELSE Undef

\* obj[name] = v: an existing property keeps its place, a new one comes last
SetProp(obj, name, v) ==
    IF HasProp(obj, name)
    THEN [obj EXCEPT !.a = [i \in 1..Len(@) |-> IF @[i].k = name THEN Prop(name, v) ELSE @[i]]]
    ELSE [obj EXCEPT !.a = Append(@, Prop(name, v))]

\* delete obj[name]
DeleteProp(obj, name) == [obj EXCEPT !.a = SelectSeq(@, LAMBDA p : p.k # name)]

\* a value used as a condition
JsTruthy(v) ==
    ~ \/ v.t \in {"undefined", "null"}
      \/ v.t = "boolean" /\ v.n = 0
      \/ v.t = "number" /\ v.n = 0 /\ v.s = ""
      \/ v.t = "string" /\ v.s = ""

\* the property names of the model in the order Array.prototype.sort() puts them
SortedNames == <<"a", "arguments", "b", "content", "function_call", "id", "logprobs",
                 "max_tokens", "messages", "model", "name", "role", "stream", "temperature",
                 "timestamp", "tool_calls", "type", "user">>

NameRank(name) == CHOOSE i \in 1..Len(SortedNames) : SortedNames[i] = name

\* sortObject(obj) recurses without end and the call stack overflows
RECURSIVE Overflows(_)
Overflows(obj) ==
    \/ obj.t = "cyclic"
    \/ obj.t \in {"array", "object"} /\ \E i \in 1..Len(obj.a) : Overflows(obj.a[i])

\* the exception a call throws in place of returning a key
RangeError == "RangeError: Maximum call stack size exceeded"

\* sortObject that sorts the names of the outermost object only
sortObject_Shallow(obj) ==
    IF obj.t = "object"
    THEN [obj EXCEPT !.a = SortSeq(@, LAMBDA p, q : NameRank(p.k) < NameRank(q.k))]
    ELSE obj

\* sortObject that puts the elements of an array in ascending order too
RECURSIVE sortObject_SortsArrays(_)
sortObject_SortsArrays(obj) ==
    IF obj.t = "array"
    THEN [obj EXCEPT !.a = SortSeq([i \in 1..Len(@) |-> sortObject_SortsArrays(@[i])],
                                   LAMBDA x, y : x.n < y.n)]
    ELSE IF obj.t = "object"
         THEN LET keys == SortSeq(obj.a, LAMBDA p, q : NameRank(p.k) < NameRank(q.k))
              IN  [obj EXCEPT !.a = [i \in 1..Len(keys) |->
                                        Prop(keys[i].k, sortObject_SortsArrays(keys[i]))]]
         ELSE obj

RECURSIVE sortObject(_)
sortObject(obj) ==
    IF obj.t = "array"
    THEN [obj EXCEPT !.a = [i \in 1..Len(@) |-> sortObject(@[i])]]
    ELSE IF obj.t = "object"
         THEN LET keys == SortSeq(obj.a, LAMBDA p, q : NameRank(p.k) < NameRank(q.k))
              IN  [obj EXCEPT !.a = [i \in 1..Len(keys) |-> Prop(keys[i].k, sortObject(keys[i]))]]
         ELSE obj

RECURSIVE Join(_, _)
Join(strs, i) ==
    IF i > Len(strs) THEN ""
    ELSE IF i = Len(strs) THEN strs[i]
    ELSE strs[i] \o "," \o Join(strs, i + 1)

\* JSON.stringify of a value that is not undefined: a property whose value is undefined is
\* left out, an array element that is undefined is written null
RECURSIVE stringify(_)
stringify(v) ==
    CASE v.t = "null" -> "null"
      [] v.t = "undefined" -> "null"
      [] v.t = "boolean" -> IF v.n = 1 THEN "true" ELSE "false"
      [] v.t = "number" -> IF v.s = "" THEN ToString(v.n) ELSE ToString(v.n) \o "." \o v.s
      [] v.t = "string" -> "\"" \o v.s \o "\""
      [] v.t = "array" -> "[" \o Join([i \in 1..Len(v.a) |-> stringify(v.a[i])], 1) \o "]"
      [] OTHER ->
            LET props == SelectSeq(v.a, LAMBDA p : p.t # "undefined")
            IN  "{" \o Join([i \in 1..Len(props) |->
                               "\"" \o props[i].k \o "\":" \o stringify(props[i])], 1) \o "}"

\* the SHA-256 digest of a string, taken to be free of collisions: the digest names its input
sha256(jsonString) == "sha256:" \o jsonString

generateKey(params) ==
    IF Overflows(params) THEN RangeError ELSE sha256(stringify(sortObject(params)))

\* normalizeMessage that keeps every field of the message
normalizeMessage_KeepsAll(msg) == msg

normalizeMessage(msg) ==
    LET n0 == Obj(<<Prop("role", GetProp(msg, "role")), Prop("content", GetProp(msg, "content"))>>)
        n1 == IF JsTruthy(GetProp(msg, "function_call"))
              THEN SetProp(n0, "function_call", GetProp(msg, "function_call")) ELSE n0
        n2 == IF JsTruthy(GetProp(msg, "tool_calls"))
              THEN SetProp(n1, "tool_calls", GetProp(msg, "tool_calls")) ELSE n1
    IN  IF JsTruthy(GetProp(msg, "name")) THEN SetProp(n2, "name", GetProp(msg, "name")) ELSE n2

normalizeMessages(messages) == Arr([i \in 1..Len(messages.a) |-> normalizeMessage(messages.a[i])])

\* OpenAI_generateKey that leaves logprobs in the parameters
OpenAI_generateKey_KeepsLogprobs(params) ==
    LET cacheableParams == DeleteProp(DeleteProp(params, "stream"), "user")
    IN  generateKey(IF JsTruthy(GetProp(cacheableParams, "messages"))
                    THEN SetProp(cacheableParams, "messages",
                                 normalizeMessages(GetProp(cacheableParams, "messages")))
                    ELSE cacheableParams)

OpenAI_generateKey(params) ==
    LET cacheableParams == DeleteProp(DeleteProp(DeleteProp(params, "stream"), "user"), "logprobs")
    IN  generateKey(IF JsTruthy(GetProp(cacheableParams, "messages"))
                    THEN SetProp(cacheableParams, "messages",
                                 normalizeMessages(GetProp(cacheableParams, "messages")))
                    ELSE cacheableParams)

generateChatKey(model, messages, temperature, maxTokens) ==
    OpenAI_generateKey(Obj(<<Prop("type", Str("chat")), Prop("model", model),
                             Prop("messages", messages), Prop("temperature", temperature),
                             Prop("max_tokens", maxTokens)>>))

\* the temperature the tests call high (cache-service.test.ts:72)
HighTemperature == Decimal(1, "8")

\* the chat requests the callers of the model make
HelloMessages == Arr(<<Obj(<<Prop("role", Str("user")), Prop("content", Str("Hello"))>>)>>)

\* a message whose content is a self-referential structure
CyclicMessages == Arr(<<Obj(<<Prop("role", Str("user")), Prop("content", Cyclic)>>)>>)

ChatRequests ==
    {[model |-> Str(m), messages |-> HelloMessages, temperature |-> Num(1), maxTokens |-> Num(1000)]
        : m \in {"gpt-4.1", "gpt-4o"}}
    \cup {[model |-> Str("gpt-4o"), messages |-> CyclicMessages, temperature |-> Num(1),
            maxTokens |-> Num(1000)]}

\* messages of one message: the message Hello with other fields next to role and content
Extras == {<<>>,
           <<Prop("timestamp", Num(1))>>,
           <<Prop("id", Str("m1"))>>,
           <<Prop("name", Str(""))>>,
           <<Prop("name", Str("bob"))>>,
           <<Prop("function_call", Obj(<<Prop("name", Str("f")), Prop("arguments", Str("{}"))>>))>>,
           <<Prop("tool_calls", Arr(<<Obj(<<Prop("id", Str("t1"))>>)>>))>>,
           <<Prop("tool_calls", Arr(<<>>))>>,
           <<Prop("name", Str("bob")), Prop("timestamp", Num(1))>>}

MessageVariants ==
    {Obj(<<Prop("role", Str("user")), Prop("content", Str("Hello"))>> \o extra) : extra \in Extras}
    \cup {Obj(<<Prop("role", Str("user")), Prop("content", Str("Bye"))>>),
          Obj(<<Prop("role", Str("system")), Prop("content", Str("Hello"))>>)}

\* the chat requests of the callers that compare keys
VariantRequests ==
    {[model |-> Str(m), messages |-> Arr(<<msg>>), temperature |-> Num(1), maxTokens |-> Num(1000)]
        : m \in {"gpt-4.1", "gpt-4o"}, msg \in MessageVariants}
    \cup {[model |-> Str("gpt-4o"), messages |-> HelloMessages, temperature |-> Num(2),
            maxTokens |-> Num(1000)],
          [model |-> Str("gpt-4o"), messages |-> HelloMessages, temperature |-> Num(1),
            maxTokens |-> Num(500)],
          [model |-> Str("gpt-4o"), messages |-> HelloMessages, temperature |-> HighTemperature,
            maxTokens |-> Num(1000)]}

\* generateChatKey of every request of the model, computed once
ChatKeys ==
    [req \in ChatRequests \cup VariantRequests |->
        generateChatKey(req.model, req.messages, req.temperature, req.maxTokens)]

ChatKey(req) == ChatKeys[req]

(***************************************************************************)
(* CacheService: every method is an operator from the store's state to the *)
(* state after the call; cfg is the config object, whose enabled flag      *)
(* setEnabled changes.                                                     *)
(***************************************************************************)
ModelListKey == "models:list"
\* the default ttl of setModelList, 3600000 ms, in the model's clock unit
ModelListTtl == 3

Absent(s) == [cache |-> s.cache, stats |-> s.stats, ret |-> Undefined]

Refused(s) == [cache |-> s.cache, stats |-> s.stats, ret |-> FALSE]

Skipped(s) == [cache |-> s.cache, stats |-> s.stats]

\* the outcome of an async method in which an exception is thrown: its promise rejects
Rejected == "<rejected>"

Rejects(s) == [cache |-> s.cache, stats |-> s.stats, ret |-> Rejected]

\* generateChatKey throws in a getChatCompletion or setChatCompletion of the request
Throws(cfg, req) == cfg.enabled /\ ChatKey(req) = RangeError

CacheService_get(s, cfg, key, t, t2) ==
    IF ~cfg.enabled THEN Absent(s) ELSE get(s, key, t, t2)

CacheService_set(s, cfg, key, value, ttl, t) ==
    IF ~cfg.enabled THEN Skipped(s) ELSE set(s, cfg, key, value, ttl, t)

CacheService_has(s, cfg, key, t) ==
    IF ~cfg.enabled THEN Refused(s) ELSE has(s, key, t)

\* getChatCompletion without the check of config.enabled
getChatCompletion_NoGate(s, cfg, req, t, t2) == get(s, ChatKey(req), t, t2)

getChatCompletion(s, cfg, req, t, t2) ==
    IF ~cfg.enabled THEN Absent(s)
    ELSE IF Throws(cfg, req) THEN Rejects(s)
    ELSE get(s, ChatKey(req), t, t2)

setChatCompletion(s, cfg, req, result, ttl, t) ==
    IF ~cfg.enabled THEN Skipped(s)
    ELSE IF Throws(cfg, req) THEN Skipped(s)
    ELSE set(s, cfg, ChatKey(req), result, ttl, t)

getModelList(s, cfg, t, t2) ==
    IF ~cfg.enabled THEN Absent(s) ELSE get(s, ModelListKey, t, t2)

setModelList(s, cfg, result, ttl, t) ==
    IF ~cfg.enabled THEN Skipped(s)
    ELSE set(s, cfg, ModelListKey, result, IF ttl = NoTtl THEN ModelListTtl ELSE ttl, t)

\* startCleanup that sets no interval
startCleanup_SetsNoInterval(tm) == tm

\* startCleanup and stopCleanup, on the flag "cleanupInterval is set"
startCleanup(tm) == TRUE

stopCleanup(tm) == FALSE

\* the intervals of the runtime: setInterval schedules one more, and clearInterval of the
\* handle in cleanupInterval cancels the one scheduled last
setInterval(intervals) ==
    intervals \cup {[op |-> "interval", id |-> Cardinality(intervals) + 1]}

clearInterval(intervals) ==
    {iv \in intervals : iv.id # Cardinality(intervals)}

(***************************************************************************)
(* The key generators applied to pairs of parameter bags.  The bags are    *)
(* JSON values, as they arrive in the arguments of a tool call.            *)
(***************************************************************************)
\* objects with the properties a and b, written in either order
TwoProps(xs, ys) ==
    {Obj(IF swap THEN <<Prop("b", y), Prop("a", x)>> ELSE <<Prop("a", x), Prop("b", y)>>)
        : swap \in BOOLEAN, x \in xs, y \in ys}

Inner == TwoProps({Num(1)}, {Num(2)})

Arrays == {Arr(<<x, y>>) : x \in {Num(1), Num(2)} \cup Inner, y \in {Num(1), Num(2)} \cup Inner}

Bags == TwoProps(Arrays \cup Inner, {Num(1)})

\* bags of an OpenAI request with and without stream, user and logprobs
ModeFields ==
    {stream \o user \o logprobs
        : stream \in {<<>>, <<Prop("stream", Bool(TRUE))>>, <<Prop("stream", Bool(FALSE))>>},
          user \in {<<>>, <<Prop("user", Str("u1"))>>},
          logprobs \in {<<>>, <<Prop("logprobs", Bool(TRUE))>>}}

ModeBags ==
    {Obj(IF front THEN modes \o rest ELSE rest \o modes)
        : front \in BOOLEAN, modes \in ModeFields,
          rest \in {<<Prop("model", Str("gpt-4o")), Prop("messages", HelloMessages)>>}}
    \cup {Obj(<<Prop("model", Str("gpt-4.1")), Prop("messages", HelloMessages)>>)}

\* the record of two calls of a key generator, on p and on q
Keyed(op, p, q, kp, kq) ==
    [op |-> op, p |-> p, q |-> q, kp |-> kp, kq |-> kq, hit |-> FALSE, seq |-> 1]

\* CacheKeyGenerator.generateKey(p) and generateKey(q)
GenerateKey(p, q) ==
    /\ last.seq < budget
    /\ last' = Keyed("generateKey", p, q, generateKey(p), generateKey(q))
    /\ UNCHANGED <<cache, stats, config, now, timer, inflight, batch, hist, budget>>

\* OpenAICacheKeyGenerator.generateKey(p) and generateKey(q)
OpenAIGenerateKey(p, q) ==
    /\ last.seq < budget
    /\ last' = Keyed("OpenAI.generateKey", p, q, OpenAI_generateKey(p), OpenAI_generateKey(q))
    /\ UNCHANGED <<cache, stats, config, now, timer, inflight, batch, hist, budget>>

\* setChatCompletion of the request p on a new enabled service, then getChatCompletion of the
\* request q; hit: the get returned the result stored
StoreThenAsk(p, q) ==
    /\ last.seq < budget
    /\ LET s1 == setChatCompletion(Store, config, p, "v1", NoTtl, now)
           r == getChatCompletion(s1, config, q, now, now)
       IN  last' = [Keyed("chat", p, q, ChatKey(p), ChatKey(q)) EXCEPT !.hit = (r.ret = "v1")]
    /\ UNCHANGED <<cache, stats, config, now, timer, inflight, batch, hist, budget>>

NextKeys ==
    \/ \E p \in Bags, q \in Bags : GenerateKey(p, q)
    \/ \E p \in ModeBags, q \in ModeBags : OpenAIGenerateKey(p, q)
    \/ \E p \in VariantRequests, q \in VariantRequests : StoreThenAsk(p, q)

\* a caller that compares the keys of one pair
InitKeys == InitStore(1, {"LRU"}, {MaxMaxSize})

SpecKeys == InitKeys /\ [][NextKeys]_vars

(***************************************************************************)
(* The state machine of a CacheService, one call at a time.                *)
(***************************************************************************)
MaxServiceCalls == 4

ServiceKeys == {"a"}
\* the results the callers of the service store
Results == {"v1"}

\* the record of a completed call of the service; disposed: dispose() has completed, in this
\* call or in an earlier one
Done(op, key, ret, ok, count, t) ==
    [op |-> op, key |-> key, value |-> Undefined, ttl |-> NoTtl, ret |-> ret, ok |-> ok,
     count |-> count, at |-> t,
     pre |-> [cache |-> cache, stats |-> stats, enabled |-> config.enabled, timer |-> timer,
              disposed |-> last.disposed],
     seq |-> last.seq + 1, disposed |-> last.disposed \/ op = "dispose"]

\* the configs of the services of the model: the strategy of the default config
ServiceConfigs == {cfg \in Configs : cfg.strategy = "LRU" /\ cfg.maxSize = MaxMaxSize}

InitService ==
    /\ config \in ServiceConfigs
    /\ cache = <<>>
    /\ stats = InitStats(config)
    /\ now = 0
    /\ timer = IF config.enabled THEN startCleanup(FALSE) ELSE FALSE
    /\ inflight = IF config.enabled THEN setInterval({}) ELSE {}
    /\ batch = NoBatch
    /\ last = NoCall
    /\ hist = NoHist
    /\ budget = MaxServiceCalls

\* the second Date.now() of a get that finds a live entry
Reads(r, t2) == t2 \in {now, now + 1} /\ t2 <= MaxClock /\ (t2 # now => r.ret \notin {Undefined, Rejected})

SvcGet(key) ==
    /\ last.seq < budget
    /\ stats.hits + stats.misses < MaxGets
    /\ \E t2 \in {now, now + 1} :
         LET r == CacheService_get(Store, config, key, now, t2)
         IN  /\ Reads(r, t2)
             /\ cache' = r.cache
             /\ stats' = r.stats
             /\ last' = Done("get", key, r.ret, r.ret # Undefined, 0, now)
             /\ now' = t2
    /\ UNCHANGED <<config, timer, inflight, batch, hist, budget>>

SvcSet(key, value, ttl) ==
    /\ last.seq < budget
    /\ stats.sets < MaxSets
    /\ LET r == CacheService_set(Store, config, key, value, ttl, now)
       IN  /\ cache' = r.cache
           /\ stats' = r.stats
           /\ last' = Done("set", key, Undefined, TRUE, 0, now)
    /\ UNCHANGED <<config, now, timer, inflight, batch, hist, budget>>

SvcHas(key) ==
    /\ last.seq < budget
    /\ LET r == CacheService_has(Store, config, key, now)
       IN  /\ cache' = r.cache
           /\ stats' = r.stats
           /\ last' = Done("has", key, Undefined, r.ret, 0, now)
    /\ UNCHANGED <<config, now, timer, inflight, batch, hist, budget>>

SvcDelete(key) ==
    /\ last.seq < budget
    /\ LET r == delete(Store, key)
       IN  /\ cache' = r.cache
           /\ stats' = r.stats
           /\ last' = Done("delete", key, Undefined, r.ret, 0, now)
    /\ UNCHANGED <<config, now, timer, inflight, batch, hist, budget>>

SvcClear ==
    /\ last.seq < budget
    /\ LET r == clear(Store)
       IN  /\ cache' = r.cache
           /\ stats' = r.stats
           /\ last' = Done("clear", NullKey, Undefined, TRUE, 0, now)
    /\ UNCHANGED <<config, now, timer, inflight, batch, hist, budget>>

GetChatCompletion(req) ==
    /\ last.seq < budget
    /\ stats.hits + stats.misses < MaxGets
    /\ \E t2 \in {now, now + 1} :
         LET r == getChatCompletion(Store, config, req, now, t2)
         IN  /\ Reads(r, t2)
             /\ cache' = r.cache
             /\ stats' = r.stats
             /\ last' = Done("getChatCompletion", ChatKey(req), r.ret,
                              r.ret \notin {Undefined, Rejected}, 0, now)
             /\ now' = t2
    /\ UNCHANGED <<config, timer, inflight, batch, hist, budget>>

SetChatCompletion(req, result, ttl) ==
    /\ last.seq < budget
    /\ stats.sets < MaxSets
    /\ LET r == setChatCompletion(Store, config, req, result, ttl, now)
       IN  /\ cache' = r.cache
           /\ stats' = r.stats
           /\ last' = Done("setChatCompletion", ChatKey(req),
                            IF Throws(config, req) THEN Rejected ELSE Undefined,
                            ~Throws(config, req), 0, now)
    /\ UNCHANGED <<config, now, timer, inflight, batch, hist, budget>>

GetModelList ==
    /\ last.seq < budget
    /\ stats.hits + stats.misses < MaxGets
    /\ \E t2 \in {now, now + 1} :
         LET r == getModelList(Store, config, now, t2)
         IN  /\ Reads(r, t2)
             /\ cache' = r.cache
             /\ stats' = r.stats
             /\ last' = Done("getModelList", ModelListKey, r.ret, r.ret # Undefined, 0, now)
             /\ now' = t2
    /\ UNCHANGED <<config, timer, inflight, batch, hist, budget>>

SetModelList(result, ttl) ==
    /\ last.seq < budget
    /\ stats.sets < MaxSets
    /\ LET r == setModelList(Store, config, result, ttl, now)
       IN  /\ cache' = r.cache
           /\ stats' = r.stats
           /\ last' = Done("setModelList", ModelListKey, Undefined, TRUE, 0, now)
    /\ UNCHANGED <<config, now, timer, inflight, batch, hist, budget>>

\* SetEnabled that empties the store when it disables the cache
SetEnabled_Clears(enabled) ==
    /\ last.seq < budget
    /\ config' = [config EXCEPT !.enabled = enabled]
    /\ timer' = IF enabled THEN (IF timer THEN timer ELSE startCleanup(timer))
                ELSE (IF timer THEN stopCleanup(timer) ELSE timer)
    /\ inflight' = IF enabled THEN (IF timer THEN inflight ELSE setInterval(inflight))
                   ELSE (IF timer THEN clearInterval(inflight) ELSE inflight)
    /\ cache' = IF enabled THEN cache ELSE clear(Store).cache
    /\ stats' = IF enabled THEN stats ELSE clear(Store).stats
    /\ last' = Done("setEnabled", NullKey, Undefined, enabled, 0, now)
    /\ UNCHANGED <<now, batch, hist, budget>>

\* SetEnabled whose startCleanup does not test cleanupInterval before it calls setInterval
SetEnabled_SchedulesAgain(enabled) ==
    /\ last.seq < budget
    /\ config' = [config EXCEPT !.enabled = enabled]
    /\ timer' = IF enabled THEN startCleanup(timer)
                ELSE (IF timer THEN stopCleanup(timer) ELSE timer)
    /\ inflight' = IF enabled THEN setInterval(inflight)
                   ELSE (IF timer THEN clearInterval(inflight) ELSE inflight)
    /\ last' = Done("setEnabled", NullKey, Undefined, enabled, 0, now)
    /\ UNCHANGED <<cache, stats, now, batch, hist, budget>>

SetEnabled(enabled) ==
    /\ last.seq < budget
    /\ config' = [config EXCEPT !.enabled = enabled]
    /\ timer' = IF enabled THEN (IF timer THEN timer ELSE startCleanup(timer))
                ELSE (IF timer THEN stopCleanup(timer) ELSE timer)
    /\ inflight' = IF enabled THEN (IF timer THEN inflight ELSE setInterval(inflight))
                   ELSE (IF timer THEN clearInterval(inflight) ELSE inflight)
    /\ last' = Done("setEnabled", NullKey, Undefined, enabled, 0, now)
    /\ UNCHANGED <<cache, stats, now, batch, hist, budget>>

SvcCleanup ==
    /\ last.seq < budget
    /\ LET r == cleanupExpired(Store, now)
       IN  /\ cache' = r.cache
           /\ stats' = r.stats
           /\ last' = Done("cleanup", NullKey, Undefined, TRUE, r.ret, now)
    /\ UNCHANGED <<config, now, timer, inflight, batch, hist, budget>>

\* the callback of setInterval: await this.cleanup()
TimerFires ==
    /\ last.seq < budget
    /\ timer
    /\ LET r == cleanupExpired(Store, now)
       IN  /\ cache' = r.cache
           /\ stats' = r.stats
           /\ last' = Done("timer", NullKey, Undefined, TRUE, r.ret, now)
    /\ UNCHANGED <<config, now, timer, inflight, batch, hist, budget>>

\* Dispose that leaves the cleanup timer scheduled
Dispose_KeepsTimer ==
    /\ last.seq < budget
    /\ LET r == clear(Store)
       IN  /\ cache' = r.cache
           /\ stats' = r.stats
           /\ last' = Done("dispose", NullKey, Undefined, TRUE, 0, now)
    /\ UNCHANGED <<config, now, timer, inflight, batch, hist, budget>>

Dispose ==
    /\ last.seq < budget
    /\ timer' = IF timer THEN stopCleanup(timer) ELSE timer
    /\ inflight' = IF timer THEN clearInterval(inflight) ELSE inflight
    /\ LET r == clear(Store)
       IN  /\ cache' = r.cache
           /\ stats' = r.stats
           /\ last' = Done("dispose", NullKey, Undefined, TRUE, 0, now)
    /\ UNCHANGED <<config, now, batch, hist, budget>>

NextService ==
    \/ Tick
    \/ \E key \in ServiceKeys : SvcGet(key)
    \/ \E key \in ServiceKeys, value \in Results, ttl \in TtlArgs : SvcSet(key, value, ttl)
    \/ \E key \in ServiceKeys : SvcHas(key)
    \/ \E key \in ServiceKeys : SvcDelete(key)
    \/ SvcClear
    \/ \E req \in ChatRequests : GetChatCompletion(req)
    \/ \E req \in ChatRequests, result \in Results, ttl \in TtlArgs : SetChatCompletion(req, result, ttl)
    \/ GetModelList
    \/ \E result \in Results, ttl \in TtlArgs : SetModelList(result, ttl)
    \/ \E enabled \in BOOLEAN : SetEnabled(enabled)
    \/ SvcCleanup
    \/ TimerFires
    \/ Dispose

SpecService == InitService /\ [][NextService]_vars

(***************************************************************************)
(* The service with its cleanup interval as the runtime drives it: while   *)
(* the interval is set, setInterval calls the callback again and again,    *)
(* whatever the callers of the service do.  The callback is no call of a   *)
(* caller and leaves the record of the last call alone.                    *)
(***************************************************************************)
MaxReclaimCalls == 3

ReclaimKeys == {"a", "b"}

\* the callback of setInterval: await this.cleanup()
Interval ==
    /\ timer
    /\ LET r == cleanupExpired(Store, now)
       IN  /\ cache' = r.cache
           /\ stats' = r.stats
    /\ UNCHANGED <<config, now, timer, inflight, batch, last, hist, budget>>

NextReclaim ==
    \/ Tick
    \/ \E key \in ReclaimKeys : SvcGet(key)
    \/ \E key \in ReclaimKeys, value \in Results, ttl \in TtlArgs : SvcSet(key, value, ttl)
    \/ \E enabled \in BOOLEAN : SetEnabled(enabled)
    \/ Dispose
    \/ Interval

InitReclaim ==
    /\ config \in ServiceConfigs
    /\ cache = <<>>
    /\ stats = InitStats(config)
    /\ now = 0
    /\ timer = IF config.enabled THEN startCleanup(FALSE) ELSE FALSE
    /\ inflight = IF config.enabled THEN setInterval({}) ELSE {}
    /\ batch = NoBatch
    /\ last = NoCall
    /\ hist = NoHist
    /\ budget = MaxReclaimCalls

\* setInterval keeps calling the callback while the interval is set
SpecReclaim == InitReclaim /\ [][NextReclaim]_vars /\ WF_vars(Interval)

(***************************************************************************)
(* The state machine of ChatCompletionTool.execute on a service: an        *)
(* execution asks the cache, and on a miss calls the OpenAI API and stores *)
(* the result.  It is suspended at each of its three awaits, and other     *)
(* executions run in between.  The store has room for every request, so a  *)
(* set never reaches await this.evict().                                   *)
(***************************************************************************)
MaxExecutions == 2

\* the requests that pass the validation of execute; the one with a cycle in a message makes
\* getChatCompletion reject, and execute throws when it resumes
ToolRequests == ChatRequests

\* the record of an execution: miss, the cache had no result; upstream, the execution made
\* its own call of the API
Execution(id, key, miss) ==
    [id |-> id, key |-> key, miss |-> miss, upstream |-> FALSE, done |-> FALSE, ret |-> Undefined]

Mark(b, id, upstream, done, ret) ==
    [b EXCEPT !.calls = [i \in 1..Len(@) |->
        IF @[i].id = id THEN [@[i] EXCEPT !.upstream = upstream, !.done = done, !.ret = ret]
        ELSE @[i]]]

\* execute up to await cacheService.getChatCompletion(...)
Execute(req) ==
    /\ last.seq < budget
    /\ LET id == last.seq + 1
           r == getChatCompletion(Store, config, req, now, now)
       IN  /\ cache' = r.cache
           /\ stats' = r.stats
           /\ inflight' = inflight \cup {[id |-> id, req |-> req, key |-> ChatKey(req),
                                          pc |-> "asked", result |-> r.ret]}
           /\ batch' = [batch EXCEPT !.calls = Append(@, Execution(id, ChatKey(req),
                                                                  r.ret = Undefined))]
    /\ Bump
    /\ UNCHANGED <<config, now, timer, hist, budget>>

\* ResumeAsked that makes no call of the API while another execution of the same request
\* waits for its own
ResumeAsked_Deduplicates(id) ==
    \E f \in inflight :
    /\ f.id = id
    /\ f.pc = "asked"
    /\ IF f.result # Undefined
       THEN /\ inflight' = inflight \ {f}
            /\ batch' = Mark(batch, id, FALSE, TRUE, f.result)
       ELSE IF \E g \in inflight : g.id # id /\ g.key = f.key /\ g.pc = "create"
            THEN /\ inflight' = inflight \ {f}
                 /\ batch' = Mark(batch, id, FALSE, TRUE, Undefined)
            ELSE /\ inflight' = (inflight \ {f}) \cup {[f EXCEPT !.pc = "create"]}
                 /\ batch' = Mark(batch, id, TRUE, FALSE, Undefined)
    /\ UNCHANGED <<cache, stats, config, now, timer, last, hist, budget>>

\* execute after the cache has answered: return the cached result (or throw the rejection),
\* or call openaiClient.chat.completions.create
ResumeAsked(id) ==
    \E f \in inflight :
    /\ f.id = id
    /\ f.pc = "asked"
    /\ IF f.result # Undefined
       THEN /\ inflight' = inflight \ {f}
            /\ batch' = Mark(batch, id, FALSE, TRUE, f.result)
       ELSE /\ inflight' = (inflight \ {f}) \cup {[f EXCEPT !.pc = "create"]}
            /\ batch' = Mark(batch, id, TRUE, FALSE, Undefined)
    /\ UNCHANGED <<cache, stats, config, now, timer, last, hist, budget>>

\* the API answers: execute builds the result, up to await cacheService.setChatCompletion(...)
Completes(id, result) ==
    \E f \in inflight :
    /\ f.id = id
    /\ f.pc = "create"
    /\ LET r == setChatCompletion(Store, config, f.req, result, NoTtl, now)
       IN  /\ cache' = r.cache
           /\ stats' = r.stats
    /\ inflight' = (inflight \ {f}) \cup {[f EXCEPT !.pc = "stored", !.result = result]}
    /\ UNCHANGED <<config, now, timer, batch, last, hist, budget>>

\* the API fails: execute throws the mapped error
Fails(id) ==
    \E f \in inflight :
    /\ f.id = id
    /\ f.pc = "create"
    /\ inflight' = inflight \ {f}
    /\ batch' = Mark(batch, id, TRUE, TRUE, Rejected)
    /\ UNCHANGED <<cache, stats, config, now, timer, last, hist, budget>>

\* execute after the result is stored: return result
ResumeStored(id) ==
    \E f \in inflight :
    /\ f.id = id
    /\ f.pc = "stored"
    /\ inflight' = inflight \ {f}
    /\ batch' = Mark(batch, id, TRUE, TRUE, f.result)
    /\ UNCHANGED <<cache, stats, config, now, timer, last, hist, budget>>

NextTool ==
    \/ \E req \in ToolRequests : Execute(req)
    \/ \E id \in 1..MaxExecutions : ResumeAsked(id)
    \/ \E id \in 1..MaxExecutions, result \in Values : Completes(id, result)
    \/ \E id \in 1..MaxExecutions : Fails(id)
    \/ \E id \in 1..MaxExecutions : ResumeStored(id)

InitTool == InitStore(MaxExecutions, {"LRU"}, {MaxMaxSize})

SpecTool == InitTool /\ [][NextTool]_vars

(***************************************************************************)
(* Properties of the store, checked under Spec.                            *)
(***************************************************************************)
Pre == last.pre

PreHeld == MapHas(Pre.cache, last.key)

PreEntry == MapGet(Pre.cache, last.key)

PreLive == PreHeld /\ last.at <= PreEntry.expiresAt

\* the last call was a set of a key not held on a store with size() >= maxSize
SetOnFull == last.op = "set" /\ NeedsEvict(Pre, config, last.key)

\* the keys the last call removed from the store
Removed == MapKeys(Pre.cache) \ MapKeys(cache)

\* C1: capacity bound: after every call, size() <= maxSize.
C1_CapacityBound == size(Store) <= config.maxSize

\* C2: liveness of an entry: get returns the stored value and has returns true if and only if
\* an entry for the key is held and now <= expiresAt; otherwise get returns undefined and has
\* returns false.
C2_LiveIffNotPastExpiry ==
    /\ last.op = "get" => last.ret = (IF PreLive THEN PreEntry.value ELSE Undefined)
    /\ last.op = "has" => last.ok = PreLive

C2_Witness ==
    /\ last.op = "get"
    /\ PreHeld
    /\ last.at = PreEntry.expiresAt
    /\ last.ret = PreEntry.value

\* C3 as stated: a get or has at a clock value exactly equal to expiresAt treats the entry as
\* expired (get returns undefined, has returns false).
C3_ExpiredAtBoundary ==
    (last.op \in {"get", "has"} /\ PreHeld /\ last.at = PreEntry.expiresAt)
        => (last.ret = Undefined /\ last.ok = FALSE)

\* C3 amended: a get or has at a clock value exactly equal to expiresAt treats the entry as
\* live (get returns the stored value, has returns true, the entry stays in the store); the
\* entry is expired only at clock values greater than expiresAt.
C3_LiveAtBoundary ==
    (last.op \in {"get", "has"} /\ PreHeld /\ last.at = PreEntry.expiresAt)
        => /\ last.ok = TRUE
           /\ last.op = "get" => last.ret = PreEntry.value
           /\ MapHas(cache, last.key)

C3_Witness ==
    /\ last.op = "has"
    /\ PreHeld
    /\ last.at = PreEntry.expiresAt
    /\ last.ok = TRUE

\* the held key whose last set or successful get is the earliest call
LeastRecentlyUsed ==
    CHOOSE k \in MapKeys(Pre.cache) : \A j \in MapKeys(Pre.cache) : hist.touch[k] <= hist.touch[j]

\* C4: LRU victim selection: under LRU a set of a new key on a full store evicts the entry
\* whose last successful get (or its insertion, if never read) is the earliest in call order.
\* Stated for stores that hold no entry under the empty key.
C4_LruVictim ==
    (SetOnFull /\ config.strategy = "LRU" /\ "" \notin MapKeys(Pre.cache))
        => MapKeys(cache) = (MapKeys(Pre.cache) \ {LeastRecentlyUsed}) \cup {last.key}

\* C5: LFU victim selection: under LFU a set of a new key on a full store evicts an entry with
\* the smallest number of successful get calls since it was last set.
C5_LfuVictim ==
    (SetOnFull /\ config.strategy = "LFU")
        => \E k \in MapKeys(Pre.cache) :
              /\ \A j \in MapKeys(Pre.cache) : hist.reads[k] <= hist.reads[j]
              /\ MapKeys(cache) = (MapKeys(Pre.cache) \ {k}) \cup {last.key}

\* the held key whose entry was inserted by the earliest set call
FirstIn ==
    CHOOSE k \in MapKeys(Pre.cache) : \A j \in MapKeys(Pre.cache) : hist.born[k] <= hist.born[j]

\* C6: FIFO victim selection: under FIFO a set of a new key on a full store evicts the entry
\* that was inserted earliest, whatever get and has calls were made.
C6_FifoVictim ==
    (SetOnFull /\ config.strategy = "FIFO")
        => MapKeys(cache) = (MapKeys(Pre.cache) \ {FirstIn}) \cup {last.key}

\* C7: exactly-one eviction: a set of a key not held on a store with size() >= maxSize removes
\* exactly one held entry and increments evictions by exactly 1; every other set removes no
\* entry and leaves evictions unchanged.
C7_ExactlyOneEviction ==
    last.op = "set" =>
        IF NeedsEvict(Pre, config, last.key)
        THEN Cardinality(Removed) = 1 /\ stats.evictions = Pre.stats.evictions + 1
        ELSE Removed = {} /\ stats.evictions = Pre.stats.evictions

(***************************************************************************)
(* Properties of overlapping calls, checked under SpecAsync.               *)
(***************************************************************************)
\* the call d made on the store s and run to its end
ApplyCall(s, d) ==
    CASE d.op = "set" ->
            LET r == set(s, config, d.key, d.value, d.ttl, d.t)
            IN  [cache |-> r.cache, stats |-> r.stats, ret |-> Undefined, ok |-> TRUE, count |-> 0]
      [] d.op = "get" ->
            LET r == get(s, d.key, d.t, d.t)
            IN  [cache |-> r.cache, stats |-> r.stats, ret |-> r.ret, ok |-> r.ret # Undefined,
                 count |-> 0]
      [] d.op = "has" ->
            LET r == has(s, d.key, d.t)
            IN  [cache |-> r.cache, stats |-> r.stats, ret |-> Undefined, ok |-> r.ret, count |-> 0]
      [] d.op = "delete" ->
            LET r == delete(s, d.key)
            IN  [cache |-> r.cache, stats |-> r.stats, ret |-> Undefined, ok |-> r.ret, count |-> 0]
      [] OTHER ->
            LET r == cleanupExpired(s, d.t)
            IN  [cache |-> r.cache, stats |-> r.stats, ret |-> Undefined, ok |-> TRUE,
                 count |-> r.ret]

\* the calls of the batch run one after the other in the order p, from the i-th on: TRUE iff
\* every call returns what it returned and the store ends as it is now
RECURSIVE Sequential(_, _, _)
Sequential(s, p, i) ==
    IF i > Len(batch.calls)
    THEN s.cache = cache /\ s.stats = stats
    ELSE LET d == batch.calls[p[i]]
             r == ApplyCall(s, d)
         IN  /\ r.ret = d.ret
             /\ r.ok = d.ok
             /\ r.count = d.count
             /\ Sequential([cache |-> r.cache, stats |-> r.stats], p, i + 1)

Quiescent == inflight = {}

\* C8: atomicity: the entries, the counters and the returned values of calls made without
\* awaiting one another are those of some sequential execution of the same calls.
C8_Atomicity ==
    Quiescent => \E p \in Permutations(1..Len(batch.calls)) : Sequential(batch.start, p, 1)

\* the batch is two or more set calls of distinct keys not held, made on a full store
SetsOnFullStore ==
    /\ Len(batch.calls) >= 2
    /\ Len(batch.start.cache) = config.maxSize
    /\ \A i \in 1..Len(batch.calls) :
          /\ batch.calls[i].op = "set"
          /\ ~MapHas(batch.start.cache, batch.calls[i].key)
          /\ \A j \in 1..Len(batch.calls) : i # j => batch.calls[i].key # batch.calls[j].key

\* C9: capacity bound under load: once several set calls for distinct new keys, made on a full
\* store without awaiting one another, have all completed, size() <= maxSize.
\* Stated for stores that hold no entry under the empty key.
C9_CapacityUnderLoad ==
    (Quiescent /\ SetsOnFullStore /\ "" \notin MapKeys(batch.start.cache))
        => size(Store) <= config.maxSize

(***************************************************************************)
(* Properties of the service, checked under SpecService.                   *)
(***************************************************************************)
\* C10: a disabled cache is a no-op: while enabled is false, set, setChatCompletion and
\* setModelList create no entry, get, getChatCompletion and getModelList return undefined and
\* has returns false, for every key.
C10_DisabledNoOp ==
    ~config.enabled =>
        /\ last.op \in {"set", "setChatCompletion", "setModelList"}
              => cache = Pre.cache /\ stats = Pre.stats
        /\ last.op \in {"get", "getChatCompletion", "getModelList"} => last.ret = Undefined
        /\ last.op = "has" => last.ok = FALSE

\* a disabled getChatCompletion that returns undefined for a request whose entry is held and live
C10_Witness ==
    /\ ~config.enabled
    /\ last.op = "getChatCompletion"
    /\ PreLive
    /\ last.ret = Undefined

\* C11: a failure of key generation degrades: when key generation throws for the arguments of
\* getChatCompletion or setChatCompletion, getChatCompletion resolves to undefined,
\* setChatCompletion resolves without storing anything, neither rejects, and the store is
\* unchanged.
C11_KeyFailureDegrades ==
    (last.op \in {"getChatCompletion", "setChatCompletion"} /\ config.enabled
        /\ last.key = RangeError)
        => /\ last.ret = Undefined
           /\ cache = Pre.cache
           /\ stats = Pre.stats

(***************************************************************************)
(* Properties of single calls of the store, checked under SpecShort and    *)
(* SpecAccess.                                                             *)
(***************************************************************************)
PreExpired == PreHeld /\ Expired(PreEntry, last.at)

\* C12: lazy expiry removes only the accessed entry: a get or has of an entry with
\* now > expiresAt removes exactly that entry and no other, and size() decreases by exactly one,
\* even when other held entries are expired too.
C12_LazyExpiryRemovesOne ==
    (last.op \in {"get", "has"} /\ PreExpired)
        => /\ cache = MapDelete(Pre.cache, last.key)
           /\ size(Store) = size(Pre) - 1

\* a has of an expired entry that leaves another expired entry in the store
C12_Witness ==
    /\ last.op = "has"
    /\ PreExpired
    /\ \E i \in 1..Len(Pre.cache) :
          /\ Pre.cache[i].key # last.key
          /\ Expired(Pre.cache[i], last.at)
          /\ MapHas(cache, Pre.cache[i].key)

\* C13: a set of a key already held fully replaces its entry: the entry has the value of the
\* set, accessCount 0, createdAt and lastAccessedAt equal to the time of the set and a
\* recomputed expiresAt; size() is unchanged, every other entry is as it was and no entry is
\* evicted, even if the store is full.
C13_OverwriteReplaces ==
    (last.op = "set" /\ PreHeld)
        => /\ MapGet(cache, last.key) =
                  [key |-> last.key, value |-> last.value, createdAt |-> last.at,
                   expiresAt |-> last.at + (IF last.ttl = NoTtl THEN config.ttl ELSE last.ttl),
                   accessCount |-> 0, lastAccessedAt |-> last.at]
           /\ size(Store) = size(Pre)
           /\ \A i \in 1..Len(Pre.cache) : Pre.cache[i].key # last.key => cache[i] = Pre.cache[i]
           /\ stats.evictions = Pre.stats.evictions

\* a set of a held key that had been read, on a full store
C13_Witness ==
    /\ last.op = "set"
    /\ PreHeld
    /\ size(Pre) >= config.maxSize
    /\ PreEntry.accessCount > 0
    /\ MapGet(cache, last.key).accessCount = 0

\* C15: delete(key) returns true, removes the entry and increments deletes by 1 if and only if
\* an entry for key is held; when none is held it returns false and leaves every entry and
\* every counter unchanged.
C15_DeleteIffHeld ==
    last.op = "delete" =>
        IF PreHeld
        THEN /\ last.ok
             /\ cache = MapDelete(Pre.cache, last.key)
             /\ stats = [Pre.stats EXCEPT !.deletes = @ + 1, !.size = @ - 1]
        ELSE /\ ~last.ok
             /\ cache = Pre.cache
             /\ stats = Pre.stats

\* a delete of a held key, made as the third call or later
C15_Witness ==
    /\ last.op = "delete"
    /\ PreHeld
    /\ last.ok
    /\ stats.deletes = 1
    /\ last.seq >= 3

\* the entry the next eviction removes from the entries c
Victim(c) ==
    CASE config.strategy = "LRU" -> ScanLRU(c, 1, NullKey, Infinity)
      [] config.strategy = "LFU" -> ScanLFU(c, 1, NullKey, Infinity)
      [] OTHER -> ScanFIFO(c, 1, NullKey, Infinity)

\* the last call changed neither hits nor misses nor the accessCount or lastAccessedAt of an
\* entry of the store
BookkeepingKept ==
    /\ stats.hits = Pre.stats.hits
    /\ stats.misses = Pre.stats.misses
    /\ \A k \in MapKeys(cache) :
          /\ MapHas(Pre.cache, k)
          /\ MapGet(cache, k).accessCount = MapGet(Pre.cache, k).accessCount
          /\ MapGet(cache, k).lastAccessedAt = MapGet(Pre.cache, k).lastAccessedAt

\* C16 as stated: a has call never changes hits, misses, or the accessCount or lastAccessedAt
\* of any entry, so under LRU and LFU it never changes which entry the next eviction removes.
C16_HasKeepsVictim ==
    (last.op = "has" /\ config.strategy \in {"LRU", "LFU"})
        => /\ BookkeepingKept
           /\ Victim(cache) = Victim(Pre.cache)

\* C16 amended: a has call never changes hits, misses, or the accessCount or lastAccessedAt of
\* any entry, so under LRU and LFU the entry the next eviction removes is the same before and
\* after the call, unless the call removed that very entry because it had expired.
C16_HasKeepsBookkeeping ==
    (last.op = "has" /\ config.strategy \in {"LRU", "LFU"})
        => /\ BookkeepingKept
           /\ Victim(Pre.cache) \notin Removed => Victim(cache) = Victim(Pre.cache)

\* a has that removed an expired entry other than the next victim
C16_Witness ==
    /\ last.op = "has"
    /\ config.strategy = "LFU"
    /\ Removed # {}
    /\ Victim(Pre.cache) \in MapKeys(cache)
    /\ Victim(cache) = Victim(Pre.cache)

\* C17: cleanupExpired removes every held entry with now > expiresAt, removes no entry that is
\* still live, and returns exactly the number of entries it removed.
C17_SweepRemovesExpired ==
    last.op = "cleanupExpired"
        => /\ cache = SelectSeq(Pre.cache, LAMBDA e : last.at <= e.expiresAt)
           /\ last.count = size(Pre) - size(Store)

\* a sweep that removed two entries
C17_Witness ==
    /\ last.op = "cleanupExpired"
    /\ last.count = 2
    /\ size(Pre) = 2
    /\ size(Store) = 0

\* C18: clear() removes all entries and sets the size statistic to 0, and leaves hits, misses,
\* sets, deletes and evictions as they were.
C18_ClearKeepsCounters ==
    last.op = "clear"
        => /\ cache = <<>>
           /\ stats = [Pre.stats EXCEPT !.size = 0]

\* a clear of a store that holds an entry and has counted a set and a get
C18_Witness ==
    /\ last.op = "clear"
    /\ size(Pre) > 0
    /\ stats.sets > 0
    /\ stats.hits + stats.misses > 0
    /\ stats.size = 0

(***************************************************************************)
(* Properties of the calls of the service, checked under SpecService.      *)
(***************************************************************************)
\* the last call of the service reached get of the store
StoreGet ==
    /\ last.op \in {"get", "getChatCompletion", "getModelList"}
    /\ config.enabled
    /\ last.ret # Rejected

\* the last call of the service reached set of the store
StoreSet ==
    /\ last.op \in {"set", "setChatCompletion", "setModelList"}
    /\ config.enabled
    /\ last.ret # Rejected

\* C14: hit/miss accounting: every completed get on the store increments exactly one of hits
\* and misses by exactly 1 (hits if and only if it returns a value), and set always increments
\* sets by exactly 1, on overwrite too; so from a fresh store 1 miss, 1 set, 1 hit and 1 delete
\* yield hits = 1, misses = 1, sets = 1, deletes = 1.
C14_HitMissAccounting ==
    /\ StoreGet =>
          IF last.ret # Undefined
          THEN stats.hits = Pre.stats.hits + 1 /\ stats.misses = Pre.stats.misses
          ELSE stats.hits = Pre.stats.hits /\ stats.misses = Pre.stats.misses + 1
    /\ StoreSet => stats.sets = Pre.stats.sets + 1
    /\ (/\ last.seq = 4
        /\ last.op = "delete"
        /\ last.ok
        /\ Pre.stats.hits = 1
        /\ Pre.stats.misses = 1
        /\ Pre.stats.sets = 1)
          => /\ stats.hits = 1
             /\ stats.misses = 1
             /\ stats.sets = 1
             /\ stats.deletes = 1

\* the fourth call on a fresh store is a delete that follows 1 miss, 1 set and 1 hit
C14_Witness ==
    /\ last.seq = 4
    /\ last.op = "delete"
    /\ last.ok
    /\ Pre.stats.hits = 1
    /\ Pre.stats.misses = 1
    /\ Pre.stats.sets = 1
    /\ stats.deletes = 1

\* C19: while the cache is disabled the entries stored before are left untouched: no call of
\* the service other than clear() or dispose() (in particular not get, has, set, delete or
\* cleanup) removes or modifies an existing entry.
C19_DisabledLeavesEntries ==
    (~config.enabled /\ last.op \notin {"none", "clear", "dispose"}) => cache = Pre.cache

C21_DisposeIdempotent ==
    last.op = "dispose"
        => /\ size(Store) = 0
           /\ stats.size = 0
           /\ ~timer
           /\ last.ok
           /\ last.ret # Rejected

\* a dispose() made after an earlier dispose(), on an empty store with no timer scheduled
C21_Witness ==
    /\ last.op = "dispose"
    /\ Pre.disposed
    /\ ~Pre.timer
    /\ Pre.cache = <<>>
    /\ ~timer

\* C22: teardown is final: once dispose() has completed, in every later state the store holds
\* no entries and no cleanup timer is scheduled, whatever calls of the service are made
\* afterwards.
C22_TeardownFinal == last.disposed => (size(Store) = 0 /\ ~timer)

(***************************************************************************)
(* Properties of the key generators, checked under SpecKeys.               *)
(***************************************************************************)
Names(obj) == {obj.a[i].k : i \in 1..Len(obj.a)}

\* p and q are deeply equal once the names of every object are sorted
RECURSIVE SameBag(_, _)
SameBag(p, q) ==
    /\ p.t = q.t
    /\ Len(p.a) = Len(q.a)
    /\ CASE p.t = "object" ->
               /\ Names(p) = Names(q)
               /\ \A i \in 1..Len(p.a) : SameBag(Prop("", p.a[i]), GetProp(q, p.a[i].k))
         [] p.t = "array" -> \A i \in 1..Len(p.a) : SameBag(p.a[i], q.a[i])
         [] OTHER -> p.s = q.s /\ p.n = q.n

\* p and q are deeply equal up to the order of the names of objects and of the elements of
\* arrays
RECURSIVE SameUpToOrder(_, _)
SameUpToOrder(p, q) ==
    /\ p.t = q.t
    /\ Len(p.a) = Len(q.a)
    /\ CASE p.t = "object" ->
               /\ Names(p) = Names(q)
               /\ \A i \in 1..Len(p.a) : SameUpToOrder(Prop("", p.a[i]), GetProp(q, p.a[i].k))
         [] p.t = "array" ->
               \E f \in Permutations(1..Len(p.a)) :
                  \A i \in 1..Len(p.a) : SameUpToOrder(p.a[i], q.a[f[i]])
         [] OTHER -> p.s = q.s /\ p.n = q.n

\* C25: key generation is independent of property order: two parameter bags that are deeply
\* equal once the names of every object at every nesting level (objects inside arrays
\* included) are sorted produce the same key.
C25_PropertyOrderIgnored ==
    (last.op = "generateKey" /\ SameBag(last.p, last.q)) => last.kp = last.kq

\* two bags with one key that differ in the order of the names of an object inside an array
C25_Witness ==
    /\ last.op = "generateKey"
    /\ SameBag(last.p, last.q)
    /\ GetProp(last.p, "a").t = "array"
    /\ GetProp(last.p, "a") # GetProp(last.q, "a")
    /\ last.kp = last.kq

\* C26: key generation preserves array order: two parameter bags that differ only in the order
\* of the elements of some array produce different keys.
C26_ArrayOrderKept ==
    (last.op = "generateKey" /\ SameUpToOrder(last.p, last.q) /\ ~SameBag(last.p, last.q))
        => last.kp # last.kq

\* two bags with different keys that differ in the order of the elements of an array
C26_Witness ==
    /\ last.op = "generateKey"
    /\ SameUpToOrder(last.p, last.q)
    /\ ~SameBag(last.p, last.q)
    /\ last.kp # last.kq

\* the properties of a bag other than stream, user and logprobs
Rest(bag) == SelectSeq(bag.a, LAMBDA x : x.k \notin {"stream", "user", "logprobs"})

\* C27: the OpenAI key generator ignores the fields of the execution mode: two parameter bags
\* that are equal except for the presence or the value of the top-level fields stream, user and
\* logprobs produce the same key.
C27_ModeFieldsIgnored ==
    (last.op = "OpenAI.generateKey" /\ Rest(last.p) = Rest(last.q)) => last.kp = last.kq

\* a bag with stream, user and logprobs and a bag with none of them, with one key
C27_Witness ==
    /\ last.op = "OpenAI.generateKey"
    /\ Rest(last.p) = Rest(last.q)
    /\ {"stream", "user", "logprobs"} \subseteq Names(last.p)
    /\ {"stream", "user", "logprobs"} \cap Names(last.q) = {}
    /\ last.kp = last.kq

\* the fields of a message that the key retains
KeyFields == {"role", "content", "function_call", "tool_calls", "name"}

\* the messages agree, one by one, on every field of KeyFields, absent or present
MessagesAgree(ms, ns) ==
    /\ Len(ms.a) = Len(ns.a)
    /\ \A i \in 1..Len(ms.a) : \A f \in KeyFields : GetProp(ms.a[i], f) = GetProp(ns.a[i], f)

SameSettings(p, q) ==
    p.model = q.model /\ p.temperature = q.temperature /\ p.maxTokens = q.maxTokens

C29_KeySensitive ==
    (last.op = "chat"
        /\ ~(SameSettings(last.p, last.q) /\ MessagesAgree(last.p.messages, last.q.messages)))
        => (last.kp # last.kq /\ ~last.hit)

(***************************************************************************)
(* Properties of the executions of the chat tool, checked under SpecTool.  *)
(***************************************************************************)
Executions == {batch.calls[i] : i \in 1..Len(batch.calls)}

\* the executions that stored a result
Stored == {d \in Executions : d.upstream /\ d.done /\ d.ret # Rejected}

\* C24: no in-flight deduplication: two identical chat requests that are both started before
\* either has stored its result both miss in the cache, both make their own call of the API and
\* both call setChatCompletion, after which the cache holds a single entry for the request.
C24_NoDeduplication ==
    Quiescent =>
        /\ \A d \in Executions : d.miss <=> d.upstream
        /\ stats.sets = Cardinality(Stored)
        /\ \A d \in Stored :
              Cardinality({i \in 1..Len(cache) : cache[i].key = d.key}) = 1

\* two executions of one request that both missed, both called the API and both stored
C24_Witness ==
    /\ Quiescent
    /\ \E d \in Stored, e \in Stored : d.id # e.id /\ d.key = e.key /\ d.miss /\ e.miss
    /\ stats.sets = 2
    /\ size(Store) = 1

(***************************************************************************)
(* Properties of overlapping set calls of one key, checked under SpecRace. *)
(***************************************************************************)
\* the batch is two set calls of one key
SameKeySets ==
    /\ Len(batch.calls) = 2
    /\ batch.calls[1].op = "set"
    /\ batch.calls[2].op = "set"
    /\ batch.calls[1].key = batch.calls[2].key

\* the entries held when the batch started, other than the key's, that are gone
EvictedOthers ==
    {i \in 1..Len(batch.start.cache) :
        /\ batch.start.cache[i].key # batch.calls[1].key
        /\ ~MapHas(cache, batch.start.cache[i].key)}

\* C23: same-key concurrent sets are last-write-wins: once two set calls of one key, made
\* without awaiting one another, have both completed, the store holds exactly one entry for the
\* key, its value is that of the call whose write happened last, sets has increased by 2, and at
\* most one other entry has been evicted.
C23_LastWriteWins ==
    (Quiescent /\ SameKeySets) =>
        LET key == batch.calls[1].key
        IN  /\ Cardinality({i \in 1..Len(cache) : cache[i].key = key}) = 1
            /\ \A i \in 1..2 : batch.calls[i].order = 2 =>
                  MapGet(cache, key).value = batch.calls[i].value
            /\ stats.sets = batch.start.stats.sets + 2
            /\ Cardinality(EvictedOthers) <= 1
            /\ stats.evictions <= batch.start.stats.evictions + 1

(***************************************************************************)
(* Properties of the timestamps of entries, checked under SpecTtl.         *)
(***************************************************************************)
\* C30: entry timestamps: every entry held has expiresAt >= createdAt, for every ttl a caller
\* passes, and the entry a set call has just created has expiresAt = createdAt + effectiveTTL,
\* where effectiveTTL is the ttl argument of the call if one was given and config.ttl otherwise.
C30_EntryTimestamps ==
    /\ \A i \in 1..Len(cache) : cache[i].expiresAt >= cache[i].createdAt
    /\ (last.op = "set" /\ MapHas(cache, last.key)) =>
          LET e == MapGet(cache, last.key)
          IN  e.expiresAt = e.createdAt + (IF last.ttl = NoTtl THEN config.ttl ELSE last.ttl)

(***************************************************************************)
(* Properties of the results stored per chat request, checked under        *)
(* SpecKeys.                                                               *)
(***************************************************************************)
\* C31: high-temperature results are not cached: after setChatCompletion with the temperature
\* 1.8, getChatCompletion with the same model, messages, temperature and maxTokens returns
\* undefined.
C31_HighTemperatureNotCached ==
    (last.op = "chat" /\ last.p = last.q /\ last.p.temperature = HighTemperature) => ~last.hit

(***************************************************************************)
(* Properties of the sweep next to lazy expiry, checked under SpecSweep.   *)
(***************************************************************************)
\* C32 as stated: the background sweep is only an optimization: for every sequence of set, get,
\* has and delete calls with fixed clock values, get and has return the same whether or not
\* cleanupExpired calls are inserted at arbitrary points of the sequence.
C32_SweepUnobservable ==
    last.op \in {"get", "has"} => last.ret = last.twin

\* C32 as amended: the same, for the sequences in which no set call finds the store that is
\* never swept at capacity.
C32_SweepUnobservableBelowCapacity ==
    (last.op \in {"get", "has"} /\ batch.calls = <<>>) => last.ret = last.twin

\* a get of a key whose expired entry the sweep removed from one store and the get itself
\* removes from the other, other entries being held
C32_Witness ==
    /\ last.op = "get"
    /\ batch.calls = <<>>
    /\ last.ret = last.twin
    /\ stats.deletes = 1
    /\ stats.misses = 1
    /\ Unswept.stats.deletes = 1
    /\ Unswept.stats.evictions = 0
    /\ Len(cache) = 1
    /\ Len(Unswept.cache) = 1

(***************************************************************************)
(* Properties of the cleanup interval, checked under SpecReclaim.          *)
(***************************************************************************)
HeldExpired(key) == MapHas(cache, key) /\ Expired(MapGet(cache, key), now)

\* C33: eventual reclamation: while the cache stays enabled and is not disposed, and the cleanup
\* timer keeps firing, every entry that has expired is eventually removed from the store, even
\* if it is never accessed again.
C33_EventualReclamation ==
    \A key \in ReclaimKeys :
        HeldExpired(key) ~> (~HeldExpired(key) \/ ~config.enabled \/ last.disposed)

\* both entries were set and expired, no call followed the second set, and the store is empty:
\* the interval removed them
C33_Witness ==
    /\ last.op = "set"
    /\ stats.sets = 2
    /\ stats.deletes = 2
    /\ stats.misses = 0
    /\ cache = <<>>
    /\ config.enabled
    /\ timer
    /\ ~last.disposed

(***************************************************************************)
(* Properties of the statistics, checked under SpecTight and SpecShort.    *)
(***************************************************************************)
\* C34: the size statistic is exact: in every state between operations, getStats().size equals
\* size(), the number of entries held, live or expired but not yet swept, and getStats().maxSize
\* equals the configured maxSize.
C34_SizeStatisticExact ==
    /\ stats.size = size(Store)
    /\ stats.maxSize = config.maxSize

\* after an eviction, a get has removed an expired entry
C34_Witness ==
    /\ last.op = "get"
    /\ stats.evictions > 0
    /\ size(Store) < size(Pre)
    /\ stats.size = size(Store)

(***************************************************************************)
(* Properties of the choice among equal candidates, checked under Spec.    *)
(***************************************************************************)
\* what the strategy compares
Measure(entry) ==
    CASE config.strategy = "LRU" -> entry.lastAccessedAt
      [] config.strategy = "LFU" -> entry.accessCount
      [] config.strategy = "FIFO" -> entry.createdAt

\* the positions, in the Map's insertion order, of the entries held before the call that share
\* the minimal value
Ties ==
    {i \in 1..Len(Pre.cache) :
        \A j \in 1..Len(Pre.cache) : Measure(Pre.cache[i]) <= Measure(Pre.cache[j])}

FirstTie == Pre.cache[CHOOSE i \in Ties : \A j \in Ties : i <= j].key

KeyOrder(c) == [i \in 1..Len(c) |-> c[i].key]

\* C35: deterministic tie-break: when several entries share the minimal lastAccessedAt (LRU),
\* accessCount (LFU) or createdAt (FIFO), the evicted entry is the one among them whose key was
\* first inserted into the map, and overwriting a key with set does not move it in this order.
C35_TieBreak ==
    last.op = "set" =>
        IF NeedsEvict(Pre, config, last.key)
        THEN Cardinality(Ties) > 1 => Removed = {FirstTie}
        ELSE MapHas(Pre.cache, last.key) => KeyOrder(cache) = KeyOrder(Pre.cache)

(***************************************************************************)
(* Properties of the cleanup timer, checked under SpecService.             *)
(***************************************************************************)
\* C36: cleanup timer invariant: at any time at most one cleanup timer is scheduled; a timer is
\* scheduled only while enabled is true; a service constructed with enabled = false has no timer
\* until setEnabled(true); and repeated setEnabled(true) calls never create a second timer.
C36_TimerInvariant ==
    /\ Cardinality(inflight) <= 1
    /\ inflight # {} => config.enabled
    /\ timer <=> inflight # {}
    /\ (last.op = "none" /\ ~config.enabled) => inflight = {}
    /\ (last.op # "none" /\ ~Pre.timer /\ inflight # {}) => (last.op = "setEnabled" /\ last.ok)
    /\ (last.op = "setEnabled" /\ Pre.timer) => Cardinality(inflight) <= 1

\* setEnabled(true) on a service that is enabled and has its timer scheduled
C36_Witness ==
    /\ last.op = "setEnabled"
    /\ last.ok
    /\ Pre.enabled
    /\ Pre.timer
    /\ Cardinality(inflight) = 1

\* C37: the deletes counter also counts expiry removals: every entry removed by lazy expiry in
\* get or has, or by cleanupExpired, increments deletes by exactly 1 (an expired get increments
\* both deletes and misses), whereas evictions and clear never change deletes.
C37_DeletesCountExpiry ==
    /\ last.op \in {"get", "has", "cleanupExpired"}
          => stats.deletes = Pre.stats.deletes + Cardinality(Removed)
    /\ (last.op = "get" /\ PreExpired)
          => /\ stats.deletes = Pre.stats.deletes + 1
             /\ stats.misses = Pre.stats.misses + 1
    /\ (last.op = "has" /\ PreExpired) => stats.deletes = Pre.stats.deletes + 1
    /\ last.op \in {"set", "clear"} => stats.deletes = Pre.stats.deletes

\* a get of an expired entry, made after a set has evicted an entry
C37_Witness ==
    /\ last.op = "get"
    /\ PreExpired
    /\ stats.evictions > 0
    /\ stats.deletes = 1
    /\ stats.misses = 1

(***************************************************************************)
(* Properties of expired entries at a set, checked under SpecAccess.       *)
(***************************************************************************)
\* C38: expired entries occupy capacity: an expired but not yet removed entry counts toward
\* size() and toward the capacity check of set, and the eviction triggered by set chooses its
\* victim by the strategy alone, so a live entry can be evicted while an expired entry stays in
\* the store.
C38_ExpiredOccupyCapacity ==
    last.op = "set" =>
        /\ size(Store) = Cardinality(MapKeys(cache))
        /\ IF size(Pre) >= config.maxSize /\ ~PreHeld
           THEN /\ Removed \subseteq {FirstTie}
                /\ FirstTie # "" => Removed = {FirstTie}
           ELSE Removed = {}

\* a set on a store full with a live and an expired entry has evicted the live one, and the
\* expired one is still held
C38_Witness ==
    /\ last.op = "set"
    /\ size(Pre) = config.maxSize
    /\ \E k \in Removed : last.at <= MapGet(Pre.cache, k).expiresAt
    /\ \E i \in 1..Len(cache) : cache[i].key # last.key /\ Expired(cache[i], last.at)
    /\ stats.evictions = 1

(***************************************************************************)
(* Properties of the counters over a run, checked under SpecShort.         *)
(***************************************************************************)
\* the set calls whose entry is neither held nor counted as deleted or evicted
Slack(s) == s.stats.sets - (s.stats.size + s.stats.deletes + s.stats.evictions)

\* C39: counter conservation: in every reachable state hits, misses, sets, deletes and evictions
\* have never decreased, and size + deletes + evictions <= sets; without clear calls and key
\* overwrites the two sides are equal (they are equal at the start, and only a clear or a set
\* of a key already held changes their difference).
C39_CounterConservation ==
    /\ stats.hits >= Pre.stats.hits
    /\ stats.misses >= Pre.stats.misses
    /\ stats.sets >= Pre.stats.sets
    /\ stats.deletes >= Pre.stats.deletes
    /\ stats.evictions >= Pre.stats.evictions
    /\ Slack(Store) >= 0
    /\ last.op = "none" => Slack(Store) = 0
    /\ (last.op \notin {"none", "clear"} /\ ~(last.op = "set" /\ PreHeld))
          => Slack(Store) = Slack(Pre)

\* after an eviction and a delete, with no clear and no overwrite, the two sides are equal
C39_Witness ==
    /\ last.op = "delete"
    /\ stats.evictions = 1
    /\ stats.deletes = 1
    /\ stats.sets = 2
    /\ stats.size = 0
    /\ Slack(Store) = 0

====
